---------------------------- MODULE Spec2Model ----------------------------
(***************************************************************************)
(* A model of the legifrance-rs ingestion and search pipeline:             *)
(*   - dumps/tarballs.rs : download_tarball_list / download_tarball,       *)
(*                         index_files_in_dir, search_index and the        *)
(*                         FileListCollector save sink;                    *)
(*   - dilarxiv-oneshot.rs : the chunk loop of main and result_file_to_csv *)
(*                         with its parser and writer threads.             *)
(*                                                                         *)
(* Three specifications share the variables:                               *)
(*   SpecDownload / SpecDownloadMany : one call of download_tarball_list,  *)
(*       stepped at its await points, with kill and re-run;                *)
(*   SpecIndex : an index writer and a query process on one index;         *)
(*   Spec      : the one-shot program from the listing to the CSV.         *)
(***************************************************************************)
EXTENDS Integers, Sequences, FiniteSets, TLC

(***************************************************************************)
(* Bounds of the model.                                                    *)
(***************************************************************************)
\* descriptors handed to download_tarball_list in SpecDownload
NumListed == 2
\* descriptors handed to download_tarball_list in SpecDownloadMany
NumMany == 11
\* chunks of a response body
BodyChunks == 1
\* runs of a command on the same working directory (first run, re-runs)
MaxRuns == 2
\* XML files of the corpus
NumFiles == 3
\* tarballs of the listings of a one-shot run
NumTarballs == 11
\* download_tarball futures of one chunk that may fail
MaxFailures == 1
\* events of a document before its end
MaxEvents == 4
\* matches of the date pattern in a raw document
MaxMatches == 3

\* names matched in the body of a listing page
MaxNames == 3
\* archives the pages of the server may list to --update
NumArchives == 2
\* lines of the result file given to --csv
MaxLines == 2
\* segment collectors of a search
NumCollectors == 2
\* writes the BufWriter of the sink holds before it writes them to the file
BufCapacity == 3

(***************************************************************************)
(* Program constants.                                                      *)
(***************************************************************************)
\* a queue one future longer
MaxInFlightRaised == 10 + 1

\* .buffer_unordered(10) in download_tarball_list
MaxInFlight == 10

(***************************************************************************)
(* Small helpers.                                                          *)
(***************************************************************************)
Range(s) == {s[i] : i \in DOMAIN s}

Min(a, b) == IF a <= b THEN a ELSE b

\* a file of a directory: absent, or present with its bytes (a sequence of chunks)
NoFile == [exists |-> FALSE, data |-> <<>>]

FileOf(d) == [exists |-> TRUE, data |-> d]

VARIABLES
    \* ---- download_tarball_list (dumps/tarballs.rs) ----
    dlPc,        \* "enter", "run", "returned", "failed", "killed"
    dlRun,       \* number of the current call on this directory
    dlList,      \* the descriptors of the call (tarballs: &[Tarball])
    dlDirState,  \* "present", "absent", "uncreatable": the directory dir
    dlDir,       \* descriptor -> the file at dir/name
    dlBefore,    \* dlDir as it was when the current call was entered
    dlNext,      \* next descriptor the stream pulls from the iterator
    dlTask,      \* descriptor -> the state of its download_tarball future
    dlResults,   \* the Vec collected from the stream, in completion order
    dlRequests   \* descriptors for which client.get(url).send() was issued

VARIABLES
    \* ---- the extraction tree and the index (dumps/tarballs.rs) ----
    extracted,   \* the files under the directory index_files_in_dir walks
    ixSegments,  \* the committed segments, each a sequence of documents
    ixPending,   \* documents added to the writer since the last commit
    ixClear,     \* delete_all_documents was called since the last commit
    ixAdded,     \* every document ever added, in the order of the adds
    ixCommitted, \* number of documents added before the last commit
    wPc,         \* index_files_in_dir: "idle", "start", "indexing", "done"
    wTodo,       \* the files index_files_in_dir has still to visit
    wRuns,       \* calls of index_files_in_dir so far
    \* ---- search_index and the save sink (dumps/tarballs.rs) ----
    query,       \* the query text, by what it parses to and matches
    qPc,         \* "idle", "start", "collect", "done", "error"
    qSave,       \* whether save is Some(path)
    qSnapshot,   \* the segments of the searcher
    qSeg,        \* segment the collectors are in
    qDoc,        \* documents of that segment already visited
    qCount,      \* the Count collector
    qTop,        \* the TopDocs collector
    qOpenStamp,  \* number of documents added before the reader was opened
    qOpenCommit, \* ixCommitted when the reader was opened
    qRuns,       \* calls of search_index so far
    saveFile,    \* the file at the save path
    saveBefore,  \* saveFile when search_index was entered
    sinkBuf      \* lines held by the BufWriter of the sink

VARIABLES
    \* ---- main of dilarxiv-oneshot (dilarxiv-oneshot.rs) ----
    osPc,        \* position of main, "idle" outside the one-shot program
    strm,        \* the tarballs listed for the fonds, reversed
    chunkNo,     \* number of the chunk of strm the loop is in, from 1
    extractedDir,\* "present" or "absent": the directory extracted/
    resultsDir,  \* the files under results/
    resultsTxt,  \* results.txt as it is on disk
    resultsBuf,  \* lines held by the BufWriter result_file_final
    appended,    \* every line the chunk loop has copied to result_file_final
    mvTodo,      \* lines of results_tmp.txt still to move
    \* ---- result_file_to_csv and its threads (dilarxiv-oneshot.rs) ----
    csNext,      \* i: lines read and dispatched so far
    csJoin,      \* parser whose handle the dispatcher joins next
    parserPc,    \* parser -> "none", "spawned", "recv", "exited", "panicked"
    parserQueue, \* parser -> paths sent on its channel and not received
    txAlive,     \* parser -> the dispatcher still holds its Sender
    writerPc,    \* "none", "spawned", "recv", "exited"
    writerQueue, \* rows sent on the writer channel and not received
    writerSenders, \* Senders of the writer channel not yet dropped
    csvRows      \* data rows serialized to the output CSV

VARIABLES
    \* ---- reader_to_pre_dila and count_tags_in_file (dumps/extractor.rs) ----
    xmlMode,     \* "idle", "parse" (reader_to_pre_dila), "count" (count_tags_in_file)
    xmlPc,       \* "idle", "read" (in the loop), "done" (the loop was left)
    xmlEvents,   \* the events read_event has returned so far
    xmlStack,    \* names of the elements open in the reader, innermost first
    reading_state, \* "None" or the ReadingState
    pre_dila,    \* the PreDilaText under construction
    tag_count,   \* tag -> its counter in the HashMap (0 when absent)
    \* ---- get_year_juri (dumps/tarballs.rs) ----
    yrPc,        \* "idle", "call", "done"
    yrCaptures,  \* the year groups of the matches of the pattern, in order
    yrResult,    \* what get_year_juri returned
    \* ---- Fond::as_str and Fond::try_from (dumps/fonds.rs) ----
    fdPc,        \* "idle", "call", "done"
    fdFond,      \* a Fond
    fdValue,     \* a String
    fdStr,       \* fdFond.as_str()
    fdBack,      \* Fond::try_from(fdFond.as_str().to_string())
    fdParsed     \* Fond::try_from(fdValue)

VARIABLES
    \* ---- list_tarballs (dumps/tarballs.rs) ----
    lsPc,        \* "idle", "call", "returned", "again"
    lsFond,      \* the fond listed
    lsResponse,  \* what client.get(url).send() and response.text() give
    lsContent,   \* the names the pattern matches in the body, in page order
    lsResult,    \* outcome of the call: Ok(list), an Err value or a panic
    lsAgain,     \* outcome of a second call answered with the same body
    \* ---- file_collector: concurrent segment collectors (dumps/tarballs.rs) ----
    fcPc,        \* collector -> "idle", "run", "path", "newline", "flush", "harvested"
    fcTodo,      \* collector -> the paths of the hits it has yet to collect
    fcHolder,    \* the collector holding the MutexGuard, 0 when the mutex is free
    fcBuf,       \* what the BufWriter holds
    fcFile       \* what the sink file holds

VARIABLES
    \* ---- the --update command (dilarxiv.rs, tarballs.rs) ----
    upPc,        \* "idle", "list", "extract", "index", "move", "cleanup", "done", "panicked"
    upRun,       \* number of --update runs started
    upFond,      \* position in fonds of the fond get_tarballs looks at
    upTdir,      \* tarball -> "absent", "whole", "corrupt": the tarballs directory
    upHad,       \* the tarballs the tarballs directory held when the run started
    upListing,   \* fond -> how its listing went in this run ("none" before)
    upTb,        \* the names get_tarballs has collected
    upTodo,      \* the names extract_tarballs has yet to look at
    upCalled,    \* the archives extract_tarball was called on in this run
    upFailed,    \* the archives extract_tarball returned Err on in this run
    upTmpExists, \* whether the tmp directory exists
    upTmp,       \* the files under tmp
    upEdir,      \* the files under extracted
    upIndex,     \* file -> number of its documents in the committed index
    \* ---- the --csv command (dilarxiv.rs) ----
    rcPc,        \* "idle", "loop", "done", "panicked"
    rcLines,     \* the lines of the result file
    rcNext,      \* position of the next line
    rcBad,       \* the file of extracted that is not a good document, 0 when none
    rcKind,      \* what is wrong with it
    rcRows,      \* what the csv writer has written, the header row included
    \* ---- the listing stage of the one-shot command (dilarxiv-oneshot.rs) ----
    osListing,   \* fond -> result of list_tarballs ("none" before the stage)
    \* ---- main of the persistent binary (dilarxiv.rs) ----
    mnPc,        \* the statement of main that is next, "idle", "done" or "panicked"
    mnArgv,      \* the flags of the command line, in the order they were given
    mnTdir,      \* whether the directory tarballs exists
    mnRan,       \* the phases that have run, in the order they ran
    mnWriters    \* number of index writers that exist

ixVars == <<extracted, ixSegments, ixPending, ixClear, ixAdded, ixCommitted,
            wPc, wTodo, wRuns>>

qVars == <<query, qPc, qSave, qSnapshot, qSeg, qDoc, qCount, qTop, qOpenStamp,
           qOpenCommit, qRuns, saveFile, saveBefore, sinkBuf>>

dlVars == <<dlPc, dlRun, dlList, dlDirState, dlDir, dlBefore, dlNext, dlTask,
            dlResults, dlRequests>>

mainVars == <<osPc, strm, chunkNo, extractedDir, resultsDir, resultsTxt,
              resultsBuf, appended, mvTodo>>

csvVars == <<csNext, csJoin, parserPc, parserQueue, txAlive, writerPc,
             writerQueue, writerSenders, csvRows>>

xmlVars == <<xmlMode, xmlPc, xmlEvents, xmlStack, reading_state, pre_dila,
             tag_count>>

yearVars == <<yrPc, yrCaptures, yrResult>>

fondVars == <<fdPc, fdFond, fdValue, fdStr, fdBack, fdParsed>>

\* the state of the functions that are called on one input at a time
listVars == <<lsPc, lsFond, lsResponse, lsContent, lsResult, lsAgain>>

fcVars == <<fcPc, fcTodo, fcHolder, fcBuf, fcFile>>

upVars == <<upPc, upRun, upFond, upTdir, upHad, upListing, upTb, upTodo,
            upCalled, upFailed, upTmpExists, upTmp, upEdir, upIndex>>

rcVars == <<rcPc, rcLines, rcNext, rcBad, rcKind, rcRows>>

mnVars == <<mnPc, mnArgv, mnTdir, mnRan, mnWriters>>

cmdVars == <<upVars, rcVars, osListing, mnVars>>

moreVars == <<listVars, fcVars, cmdVars>>

pureVars == <<xmlVars, yearVars, fondVars, moreVars>>

\* the state of the commands
sysVars == <<dlVars, ixVars, qVars, mainVars, csvVars>>

vars == <<sysVars, pureVars>>

\* what the steps of one component leave alone
DlFrame == UNCHANGED <<ixVars, qVars, mainVars, csvVars, pureVars>>

IxFrame == UNCHANGED <<dlVars, mainVars, csvVars, pureVars>>

(***************************************************************************)
(* download_tarball_list and download_tarball.                             *)
(***************************************************************************)
\* the body the server sends for a descriptor, chunk by chunk
Body(t) == [i \in 1..BodyChunks |-> i]

\* a future that was not pulled from the iterator yet
PendingTask == [pc |-> "pending", got |-> 0, ret |-> "none", fail |-> "none"]

Done(ret, fail, got) == [pc |-> "done", got |-> got, ret |-> ret, fail |-> fail]

InFlight == {t \in DOMAIN dlTask : dlTask[t].pc \in {"queued", "sent", "body"}}

\* buffer_unordered fills its queue from the iterator before it polls the queue
CanStart == dlNext <= Len(dlList) /\ Cardinality(InFlight) < MaxInFlight

\* Ok(true) => Some(tarball.clone()), _ => None, then filter_map and collect
Collect(results, t, ret) == IF ret = "true" THEN Append(results, t) ELSE results

Finish(t, ret, fail) ==
    /\ dlTask' = [dlTask EXCEPT ![t] = Done(ret, fail, dlTask[t].got)]
    /\ dlResults' = Collect(dlResults, t, ret)

\* if !dir.exists() { create_dir_all(dir).context(..)? }
download_tarball_list_enter ==
    /\ dlPc = "enter"
    /\ DlFrame
    /\ IF dlDirState = "uncreatable"
       THEN dlPc' = "failed" /\ UNCHANGED dlDirState
       ELSE dlPc' = "run" /\ dlDirState' = "present"
    /\ UNCHANGED <<dlRun, dlList, dlDir, dlBefore, dlNext, dlTask, dlResults,
                   dlRequests>>

\* the stream pulls the next future from tasks and pushes it on its queue
download_tarball_list_start ==
    /\ dlPc = "run"
    /\ DlFrame
    /\ CanStart
    /\ dlTask' = [dlTask EXCEPT ![dlList[dlNext]].pc = "queued"]
    /\ dlNext' = dlNext + 1
    /\ UNCHANGED <<dlPc, dlRun, dlList, dlDirState, dlDir, dlBefore, dlResults,
                   dlRequests>>

\* a path that is never found, whatever the directory holds
PathNeverExists(file) == FALSE

\* path.exists(): detection of an earlier download is by path existence only
PathExists(file) == file.exists

\* first poll: if path.exists() { return Ok(false) }, else client.get(url).send()
download_tarball_poll(t) ==
    /\ dlPc = "run"
    /\ DlFrame
    /\ ~CanStart
    /\ dlTask[t].pc = "queued"
    /\ IF PathExists(dlDir[t])
       THEN Finish(t, "false", "none") /\ UNCHANGED dlRequests
       ELSE /\ dlTask' = [dlTask EXCEPT ![t].pc = "sent"]
            /\ dlRequests' = dlRequests \cup {t}
            /\ UNCHANGED dlResults
    /\ UNCHANGED <<dlPc, dlRun, dlList, dlDirState, dlDir, dlBefore, dlNext>>

\* send().await? fails: the future returns Err
download_tarball_send_error(t) ==
    /\ dlPc = "run"
    /\ DlFrame
    /\ ~CanStart
    /\ dlTask[t].pc = "sent"
    /\ Finish(t, "err", "send")
    /\ UNCHANGED <<dlPc, dlRun, dlList, dlDirState, dlDir, dlBefore, dlNext,
                   dlRequests>>

\* the value download_tarball returns after the else branch of
\* if response.status().is_success(): warn!(..) and fall through to Ok(true)
StatusFailureReturn == "true"

\* a response whose status is not a success
download_tarball_bad_status(t) ==
    /\ dlPc = "run"
    /\ DlFrame
    /\ ~CanStart
    /\ dlTask[t].pc = "sent"
    /\ Finish(t, StatusFailureReturn, "status")
    /\ UNCHANGED <<dlPc, dlRun, dlList, dlDirState, dlDir, dlBefore, dlNext,
                   dlRequests>>

\* the path File::create opens for the body: the target path itself
CreatedFile(old) == FileOf(<<>>)

\* a success response: tokio::fs::File::create(path) truncates or creates
download_tarball_create(t) ==
    /\ dlPc = "run"
    /\ DlFrame
    /\ ~CanStart
    /\ dlTask[t].pc = "sent"
    /\ dlTask' = [dlTask EXCEPT ![t].pc = "body"]
    /\ dlDir' = [dlDir EXCEPT ![t] = CreatedFile(dlDir[t])]
    /\ UNCHANGED <<dlPc, dlRun, dlList, dlDirState, dlBefore, dlNext, dlResults,
                   dlRequests>>

\* a success response, but File::create(..).context(..)? fails
download_tarball_create_error(t) ==
    /\ dlPc = "run"
    /\ DlFrame
    /\ ~CanStart
    /\ dlTask[t].pc = "sent"
    /\ Finish(t, "err", "file")
    /\ UNCHANGED <<dlPc, dlRun, dlList, dlDirState, dlDir, dlBefore, dlNext,
                   dlRequests>>

\* tokio::io::copy(&mut bytes.as_ref(), &mut buf_writer): copy writes the chunk
\* and flushes the writer before it returns
CopyChunk(file, bytes) == FileOf(Append(file.data, bytes))

\* bs.next() yields Some(Ok(bytes)) and the copy succeeds
download_tarball_chunk(t) ==
    /\ dlPc = "run"
    /\ DlFrame
    /\ ~CanStart
    /\ dlTask[t].pc = "body"
    /\ dlTask[t].got < Len(Body(t))
    /\ dlDir' = [dlDir EXCEPT ![t] = CopyChunk(dlDir[t], Body(t)[dlTask[t].got + 1])]
    /\ dlTask' = [dlTask EXCEPT ![t].got = dlTask[t].got + 1]
    /\ UNCHANGED <<dlPc, dlRun, dlList, dlDirState, dlBefore, dlNext, dlResults,
                   dlRequests>>

\* bs.next() yields Some(Ok(bytes)) and the copy fails (.context(..)?)
download_tarball_copy_error(t) ==
    /\ dlPc = "run"
    /\ DlFrame
    /\ ~CanStart
    /\ dlTask[t].pc = "body"
    /\ dlTask[t].got < Len(Body(t))
    /\ Finish(t, "err", "file")
    /\ UNCHANGED <<dlPc, dlRun, dlList, dlDirState, dlDir, dlBefore, dlNext,
                   dlRequests>>

\* bs.next() yields Some(Err(e)): warn!(..); return Err(e.into())
download_tarball_stream_error(t) ==
    /\ dlPc = "run"
    /\ DlFrame
    /\ ~CanStart
    /\ dlTask[t].pc = "body"
    /\ Finish(t, "err", "stream")
    /\ UNCHANGED <<dlPc, dlRun, dlList, dlDirState, dlDir, dlBefore, dlNext,
                   dlRequests>>

\* bs.next() yields None: the loop ends and the future returns Ok(true)
download_tarball_end(t) ==
    /\ dlPc = "run"
    /\ DlFrame
    /\ ~CanStart
    /\ dlTask[t].pc = "body"
    /\ dlTask[t].got = Len(Body(t))
    /\ Finish(t, "true", "none")
    /\ UNCHANGED <<dlPc, dlRun, dlList, dlDirState, dlDir, dlBefore, dlNext,
                   dlRequests>>

\* the stream is exhausted: collect ends and the call returns Ok(results)
download_tarball_list_return ==
    /\ dlPc = "run"
    /\ DlFrame
    /\ dlNext > Len(dlList)
    /\ InFlight = {}
    /\ dlPc' = "returned"
    /\ UNCHANGED <<dlRun, dlList, dlDirState, dlDir, dlBefore, dlNext, dlTask,
                   dlResults, dlRequests>>

\* the process is killed during the call: only the directory survives
Kill ==
    /\ dlPc = "run"
    /\ DlFrame
    /\ dlPc' = "killed"
    /\ dlTask' = [t \in DOMAIN dlTask |-> PendingTask]
    /\ dlNext' = 1
    /\ dlResults' = <<>>
    /\ dlRequests' = {}
    /\ UNCHANGED <<dlRun, dlList, dlDirState, dlDir, dlBefore>>

\* a later run calls download_tarball_list with the same listing
Rerun ==
    /\ dlPc \in {"killed", "returned"}
    /\ DlFrame
    /\ dlRun < MaxRuns
    /\ dlRun' = dlRun + 1
    /\ dlPc' = "enter"
    /\ dlBefore' = dlDir
    /\ dlTask' = [t \in DOMAIN dlTask |-> PendingTask]
    /\ dlNext' = 1
    /\ dlResults' = <<>>
    /\ dlRequests' = {}
    /\ UNCHANGED <<dlList, dlDirState, dlDir>>

DownloadStep ==
    \/ download_tarball_list_enter
    \/ download_tarball_list_start
    \/ \E t \in DOMAIN dlTask : download_tarball_poll(t)
    \/ \E t \in DOMAIN dlTask : download_tarball_send_error(t)
    \/ \E t \in DOMAIN dlTask : download_tarball_bad_status(t)
    \/ \E t \in DOMAIN dlTask : download_tarball_create(t)
    \/ \E t \in DOMAIN dlTask : download_tarball_create_error(t)
    \/ \E t \in DOMAIN dlTask : download_tarball_chunk(t)
    \/ \E t \in DOMAIN dlTask : download_tarball_copy_error(t)
    \/ \E t \in DOMAIN dlTask : download_tarball_stream_error(t)
    \/ \E t \in DOMAIN dlTask : download_tarball_end(t)
    \/ download_tarball_list_return


(***************************************************************************)
(* The corpus: XML files, and what a query matches.                        *)
(***************************************************************************)
Files == 1..NumFiles

\* file.strip_prefix(dir): the path of a file relative to the extraction root
PathOf(f) == 100 + f

\* p.extension() == "xml"
IsXml(f) == f % 4 # 0

\* get_year_juri finds a date in the raw XML (file 3 holds none)
HasYear(f) == f % 3 # 0

Year(f) == 2000 + f

\* a query text: whether it parses, and the bodies it matches
Queries ==
    {[ok |-> FALSE, hits |-> {}]} \cup {[ok |-> TRUE, hits |-> 1..k] : k \in 0..NumFiles}

Matches(q, doc) == doc.body \in q.hits

\* the documents of a list of segments, in segment-traversal order
RECURSIVE Flatten(_)
Flatten(segs) == IF segs = <<>> THEN <<>> ELSE Head(segs) \o Flatten(Tail(segs))

SelectMatching(docs, q) == SelectSeq(docs, LAMBDA d : Matches(q, d))

(***************************************************************************)
(* index_files_in_dir, index_file and the writer.                          *)
(***************************************************************************)
\* parse_file and index_file: the document of a file, stamped by its add
Document(f, stamp) ==
    [path |-> PathOf(f), body |-> f, year |-> Year(f), stamp |-> stamp]

\* a commit that does not apply delete_all_documents
PublishedKeepAll(segments, pending, clear) ==
    segments \o (IF pending = <<>> THEN <<>> ELSE <<pending>>)

\* writer.commit(): the segments a reader opened from now on is given
Published(segments, pending, clear) ==
    (IF clear THEN <<>> ELSE segments) \o (IF pending = <<>> THEN <<>> ELSE <<pending>>)

\* a commit that publishes nothing
CommitNothing == UNCHANGED <<ixSegments, ixPending, ixClear, ixCommitted>>

\* index_writer.commit(): what was added is published, a pending
\* delete_all_documents is applied
Commit ==
    /\ ixSegments' = Published(ixSegments, ixPending, ixClear)
    /\ ixPending' = <<>>
    /\ ixClear' = FALSE
    /\ ixCommitted' = Len(ixAdded)

\* list_files_in_dir(dir) filtered on is_file() and the xml extension
index_files_in_dir_enter ==
    /\ IxFrame
    /\ wPc = "start"
    /\ wPc' = "indexing"
    /\ wTodo' = {f \in extracted : IsXml(f)}
    /\ UNCHANGED <<extracted, ixSegments, ixPending, ixClear, ixAdded, ixCommitted,
                   wRuns, qVars>>

\* a turn of the loop that indexes a file whether or not parse_file found a year
index_files_in_dir_file_unparsed(f) ==
    /\ IxFrame
    /\ wPc = "indexing"
    /\ f \in wTodo
    /\ wTodo' = wTodo \ {f}
    /\ ixPending' = Append(ixPending, Document(f, Len(ixAdded) + 1))
    /\ ixAdded' = Append(ixAdded, Document(f, Len(ixAdded) + 1))
    /\ UNCHANGED <<extracted, ixSegments, ixClear, ixCommitted, wPc, wRuns, qVars>>

\* one turn of for file in files: parse_file, then index_file or a warning
index_files_in_dir_file(f) ==
    /\ IxFrame
    /\ wPc = "indexing"
    /\ f \in wTodo
    /\ wTodo' = wTodo \ {f}
    /\ IF HasYear(f)
       THEN /\ ixPending' = Append(ixPending, Document(f, Len(ixAdded) + 1))
            /\ ixAdded' = Append(ixAdded, Document(f, Len(ixAdded) + 1))
       ELSE UNCHANGED <<ixPending, ixAdded>>
    /\ UNCHANGED <<extracted, ixSegments, ixClear, ixCommitted, wPc, wRuns, qVars>>

\* index_writer.commit()?; Ok(())
index_files_in_dir_commit ==
    /\ IxFrame
    /\ wPc = "indexing"
    /\ wTodo = {}
    /\ Commit
    /\ wPc' = "done"
    /\ UNCHANGED <<extracted, ixAdded, wTodo, wRuns, qVars>>

(***************************************************************************)
(* search_index and file_collector.                                        *)
(***************************************************************************)
\* a searcher that also sees what the writer has not committed
OpenSearcherDirty(segments, pending) ==
    segments \o (IF pending = <<>> THEN <<>> ELSE <<pending>>)

\* index.reader_builder()..try_into()?.searcher(): the committed segments
OpenSearcher(segments, pending) == segments

\* a sink opened with truncate instead of append
OpenSinkTruncate(file) == FileOf(<<>>)

\* FileListCollector::new: OpenOptions create(true).read(true).append(true)
OpenSink(file) == IF file.exists THEN file ELSE FileOf(<<>>)

\* a flush of a sink opened without append: it writes from the start of the file
FlushAtStart(file, buf) ==
    IF buf = <<>> THEN file
    ELSE FileOf(buf \o SubSeq(file.data, Len(buf) + 1, Len(file.data)))

\* a flush that writes nothing to the file
FlushNothing(file, buf) == file

\* lock.flush(), and the flush of a dropped BufWriter
Flush(file, buf) == IF buf = <<>> THEN file ELSE FileOf(file.data \o buf)

\* TopDocs::with_limit(10): the documents kept, the best scores first
TopLimit == 10

Score(doc) == doc.body

TopDocs(docs) ==
    IF Cardinality(docs) <= TopLimit THEN docs
    ELSE CHOOSE T \in SUBSET docs :
            /\ Cardinality(T) = TopLimit
            /\ \A a \in T, b \in docs \ T : Score(a) >= Score(b)

\* reader and searcher, parse_query(query)?, then FileListCollector::new
search_index_open ==
    /\ IxFrame
    /\ qPc = "start"
    /\ qSnapshot' = OpenSearcher(ixSegments, ixPending)
    /\ qOpenStamp' = Len(ixAdded)
    /\ qOpenCommit' = ixCommitted
    /\ IF query.ok
       THEN /\ qPc' = "collect"
            /\ saveFile' = IF qSave THEN OpenSink(saveFile) ELSE saveFile
       ELSE /\ qPc' = "error"
            /\ UNCHANGED saveFile
    /\ UNCHANGED <<query, qSave, qSeg, qDoc, qCount, qTop, qRuns, saveBefore,
                   sinkBuf, ixVars>>

\* the collectors are handed the next document of the segment:
\* Count, TopDocs, and FileListSegmentCollector::collect writing path and "\n"
search_index_collect ==
    /\ IxFrame
    /\ qPc = "collect"
    /\ qSeg <= Len(qSnapshot)
    /\ qDoc < Len(qSnapshot[qSeg])
    /\ LET doc == qSnapshot[qSeg][qDoc + 1] IN
          IF Matches(query, doc)
          THEN /\ qCount' = qCount + 1
               /\ qTop' = TopDocs(qTop \cup {doc})
               /\ sinkBuf' = IF qSave THEN Append(sinkBuf, doc.path) ELSE sinkBuf
          ELSE UNCHANGED <<qCount, qTop, sinkBuf>>
    /\ qDoc' = qDoc + 1
    /\ UNCHANGED <<query, qPc, qSave, qSnapshot, qSeg, qOpenStamp, qOpenCommit,
                   qRuns, saveFile, saveBefore, ixVars>>

\* the segment is exhausted: FileListSegmentCollector::harvest flushes the sink
search_index_harvest ==
    /\ IxFrame
    /\ qPc = "collect"
    /\ qSeg <= Len(qSnapshot)
    /\ qDoc = Len(qSnapshot[qSeg])
    /\ saveFile' = Flush(saveFile, sinkBuf)
    /\ sinkBuf' = <<>>
    /\ qSeg' = qSeg + 1
    /\ qDoc' = 0
    /\ UNCHANGED <<query, qPc, qSave, qSnapshot, qCount, qTop, qOpenStamp,
                   qOpenCommit, qRuns, saveBefore, ixVars>>

\* searcher.search returns; the collector is dropped; Ok((doc_count, results))
search_index_return ==
    /\ IxFrame
    /\ qPc = "collect"
    /\ qSeg > Len(qSnapshot)
    /\ qPc' = "done"
    /\ saveFile' = Flush(saveFile, sinkBuf)
    /\ sinkBuf' = <<>>
    /\ UNCHANGED <<query, qSave, qSnapshot, qSeg, qDoc, qCount, qTop, qOpenStamp,
                   qOpenCommit, qRuns, saveBefore, ixVars>>

\* what a caller of search_index sets up: a fresh call with this save option
CallSearch(save) ==
    /\ qPc' = "start"
    /\ qSave' = save
    /\ qSnapshot' = <<>>
    /\ qSeg' = 1
    /\ qDoc' = 0
    /\ qCount' = 0
    /\ qTop' = {}
    /\ qOpenStamp' = 0
    /\ qOpenCommit' = 0
    /\ qRuns' = qRuns + 1
    /\ saveBefore' = saveFile
    /\ UNCHANGED <<query, saveFile, sinkBuf>>

\* dilarxiv --index: main calls index_files_in_dir on extracted/
IndexStart ==
    /\ IxFrame
    /\ wPc \in {"idle", "done"}
    /\ wRuns < MaxRuns
    /\ wPc' = "start"
    /\ wRuns' = wRuns + 1
    /\ UNCHANGED <<extracted, ixSegments, ixPending, ixClear, ixAdded, ixCommitted,
                   wTodo, qVars>>

\* dilarxiv --query text [--save file]: main calls search_index
QueryStart ==
    /\ IxFrame
    /\ qPc \in {"idle", "done", "error"}
    /\ qRuns < MaxRuns
    /\ \E save \in BOOLEAN : CallSearch(save)
    /\ UNCHANGED ixVars

IndexStep ==
    \/ index_files_in_dir_enter
    \/ \E f \in Files : index_files_in_dir_file(f)
    \/ index_files_in_dir_commit

SearchStep ==
    \/ search_index_open
    \/ search_index_collect
    \/ search_index_harvest
    \/ search_index_return

(***************************************************************************)
(* dilarxiv-oneshot: main and its chunk loop.                              *)
(***************************************************************************)
Tarballs == 1..NumTarballs

\* the fonds of the run, and the fond whose listing names a tarball
Fonds == {1, 2}

FondOf(t) == IF t = 1 THEN 1 ELSE 2

\* list_tarballs(client, fond): the descriptors in the order of the listing
Listing(fond) == SelectSeq([t \in Tarballs |-> t], LAMBDA t : FondOf(t) = fond)

\* the flattened listings left in the order of the pages
NotReversed(s) == s

\* .rev() of the flattened listings
Reverse(s) == [i \in 1..Len(s) |-> s[Len(s) + 1 - i]]

\* the tarball whose archive holds a file of the corpus
Holder(f) == IF f % 2 = 1 THEN 1 ELSE NumTarballs

\* strm.chunks(10)
ChunkSize == 10

NumChunks(s) == (Len(s) + ChunkSize - 1) \div ChunkSize

Chunk(s, k) == SubSeq(s, (k - 1) * ChunkSize + 1, Min(k * ChunkSize, Len(s)))

\* the ways a download_tarball future fails
FailKinds == {"status", "send", "stream"}

\* what one download_tarball future leaves at its target path and returns,
\* when the descriptors of bad fail in the given way after got chunks
Outcome(t, bad, kind, got) ==
    IF PathExists(dlDir[t])
    THEN [file |-> dlDir[t], task |-> Done("false", "none", 0)]
    ELSE IF t \notin bad
    THEN [file |-> FileOf(Body(t)), task |-> Done("true", "none", Len(Body(t)))]
    ELSE IF kind = "status"
    THEN [file |-> NoFile, task |-> Done(StatusFailureReturn, "status", 0)]
    ELSE IF kind = "send"
    THEN [file |-> NoFile, task |-> Done("err", "send", 0)]
    ELSE [file |-> FileOf(SubSeq(Body(t), 1, got)), task |-> Done("err", "stream", got)]

\* extract_tarball: File::open, GzDecoder, tar.unpack; Err unless the path
\* holds the whole archive
Unpacked(t) ==
    IF dlDir[t].exists /\ dlDir[t].data = Body(t)
    THEN {f \in Files : Holder(f) = t} ELSE {}

\* a rename that leaves the file nowhere
RenamedNowhere(dir, files) == dir

\* std::fs::rename(&infile, &outfile): what the target directory holds then
Renamed(dir, files) == dir \cup files

\* a removal that leaves the tree in place
KeptTree(files) == files

\* std::fs::remove_dir_all then create_dir_all: what the directory holds then
RemovedTree(files) == {}

\* what list_tarballs(&client, fond).await comes to: Ok(tarballs), an Err, or
\* the panic of extract_date_from_tarball_name on a name of the page
ListResults == {"returned", "failed", "panic"}

\* the listing stage has not run
NotListed == osListing = [f \in Fonds |-> "none"]

\* what the filter_map closure yields for a fond: Some(tarballs) or None
ListedOf(results, fond) ==
    IF results[fond] = "returned" THEN Listing(fond) ELSE <<>>

\* list_tarballs for every fond in turn; a fond whose listing is an Err is
\* left out, a panic in a listing ends the run before the next fond
main_list ==
    /\ UNCHANGED <<xmlVars, yearVars, fondVars, listVars, fcVars, upVars, rcVars,
                   mnVars>>
    /\ osPc = "list"
    /\ \E results \in [Fonds -> ListResults \cup {"none"}] :
          /\ \A f \in Fonds :
                results[f] = "none" <=> \E g \in Fonds : g < f /\ results[g] = "panic"
          /\ osListing' = results
          /\ IF \E f \in Fonds : results[f] = "panic"
             THEN osPc' = "panicked" /\ UNCHANGED strm
             ELSE /\ strm' = Reverse(ListedOf(results, 1) \o ListedOf(results, 2))
                  /\ osPc' = "chunk"
    /\ UNCHANGED <<chunkNo, extractedDir, resultsDir, resultsTxt, resultsBuf,
                   appended, mvTodo, csvVars, dlVars, ixVars, qVars>>

\* for chunk in strm.chunks(10): the next chunk, or the end of the loop
main_chunk ==
    /\ UNCHANGED pureVars
    /\ osPc = "chunk"
    /\ osPc' = IF chunkNo <= NumChunks(strm) THEN "download" ELSE "csv_open"
    /\ UNCHANGED <<strm, chunkNo, extractedDir, resultsDir, resultsTxt,
                   resultsBuf, appended, mvTodo, csvVars, dlVars, ixVars, qVars>>

\* download_tarball_list(&client, chunk, &dl_dir).await, as a whole: every
\* future of the chunk has run to its end, at most MaxFailures of them failing
main_download ==
    /\ UNCHANGED pureVars
    /\ osPc = "download"
    /\ LET chunk == Chunk(strm, chunkNo) IN
       \E bad \in SUBSET Range(chunk), kind \in FailKinds, got \in 0..(BodyChunks - 1) :
          /\ Cardinality(bad) <= MaxFailures
          /\ dlList' = chunk
          /\ dlDir' = [t \in Tarballs |->
                         IF t \in Range(chunk) THEN Outcome(t, bad, kind, got).file
                         ELSE dlDir[t]]
          /\ dlTask' = [t \in Tarballs |->
                          IF t \in Range(chunk) THEN Outcome(t, bad, kind, got).task
                          ELSE PendingTask]
          /\ dlResults' =
                SelectSeq(chunk, LAMBDA t : Outcome(t, bad, kind, got).task.ret = "true")
          /\ dlRequests' = {t \in Range(chunk) : ~PathExists(dlDir[t])}
          /\ dlNext' = Len(chunk) + 1
    /\ dlPc' = "returned"
    /\ dlBefore' = dlDir
    /\ osPc' = "extract"
    /\ UNCHANGED <<dlRun, dlDirState, strm, chunkNo, extractedDir, resultsDir,
                   resultsTxt, resultsBuf, appended, mvTodo, csvVars, ixVars, qVars>>

\* extract_tarball for every path of tblist; let _ = drops the errors
main_extract ==
    /\ UNCHANGED pureVars
    /\ osPc = "extract"
    /\ extracted' = extracted \cup UNION {Unpacked(t) : t \in Range(dlResults)}
    /\ osPc' = "index"
    /\ UNCHANGED <<strm, chunkNo, extractedDir, resultsDir, resultsTxt, resultsBuf,
                   appended, mvTodo, csvVars, dlVars, qVars, ixSegments, ixPending,
                   ixClear, ixAdded, ixCommitted, wPc, wTodo, wRuns>>

\* tarballs::index_files_in_dir(&mut writer, &flds, &extract_dir) is called
main_index ==
    /\ UNCHANGED pureVars
    /\ osPc = "index"
    /\ wPc' = "start"
    /\ wRuns' = wRuns + 1
    /\ osPc' = "indexing"
    /\ UNCHANGED <<strm, chunkNo, extractedDir, resultsDir, resultsTxt, resultsBuf,
                   appended, mvTodo, csvVars, dlVars, qVars, extracted, ixSegments,
                   ixPending, ixClear, ixAdded, ixCommitted, wTodo>>

\* index_files_in_dir has returned: writer.commit()
main_commit ==
    /\ UNCHANGED pureVars
    /\ osPc = "indexing"
    /\ wPc = "done"
    /\ Commit
    /\ osPc' = "search"
    /\ UNCHANGED <<strm, chunkNo, extractedDir, resultsDir, resultsTxt, resultsBuf,
                   appended, mvTodo, csvVars, dlVars, qVars, extracted, ixAdded, wPc,
                   wTodo, wRuns>>

\* tarballs::search_index(&index, &flds, &result_file_out, &args.query) is called
main_search ==
    /\ UNCHANGED pureVars
    /\ osPc = "search"
    /\ CallSearch(TRUE)
    /\ osPc' = "searching"
    /\ UNCHANGED <<strm, chunkNo, extractedDir, resultsDir, resultsTxt, resultsBuf,
                   appended, mvTodo, csvVars, dlVars, ixVars>>

\* search_index has returned, Ok or Err: File::open(&result_tmp).expect(..),
\* then std::io::copy into result_file_final, which writes the file directly
\* (the descriptor-to-descriptor copy) or leaves the bytes in the BufWriter
main_copy ==
    /\ UNCHANGED pureVars
    /\ osPc = "searching"
    /\ qPc \in {"done", "error"}
    /\ IF ~saveFile.exists
       THEN /\ osPc' = "panicked"
            /\ UNCHANGED <<resultsTxt, resultsBuf, appended>>
       ELSE /\ osPc' = "read"
            /\ appended' = appended \o saveFile.data
            /\ \E direct \in BOOLEAN :
                  IF direct
                  THEN /\ resultsTxt' = FileOf(resultsTxt.data \o resultsBuf \o saveFile.data)
                       /\ resultsBuf' = <<>>
                  ELSE /\ resultsBuf' = resultsBuf \o saveFile.data
                       /\ UNCHANGED resultsTxt
    /\ UNCHANGED <<strm, chunkNo, extractedDir, resultsDir, mvTodo, csvVars, dlVars,
                   ixVars, qVars>>

\* std::fs::read_to_string(&result_tmp), results.lines()
main_read_results ==
    /\ UNCHANGED pureVars
    /\ osPc = "read"
    /\ IF saveFile.exists
       THEN mvTodo' = saveFile.data /\ osPc' = "move"
       ELSE osPc' = "panicked" /\ UNCHANGED mvTodo
    /\ UNCHANGED <<strm, chunkNo, extractedDir, resultsDir, resultsTxt, resultsBuf,
                   appended, csvVars, dlVars, ixVars, qVars>>

\* one turn of for line in results.lines(): rename extracted/line to results/line
main_move_file ==
    /\ UNCHANGED pureVars
    /\ osPc = "move"
    /\ mvTodo # <<>>
    /\ LET infile == {f \in extracted : PathOf(f) = Head(mvTodo)} IN
          IF infile = {}
          THEN /\ osPc' = "panicked"
               /\ UNCHANGED <<extracted, resultsDir, mvTodo>>
          ELSE /\ extracted' = extracted \ infile
               /\ resultsDir' = Renamed(resultsDir, infile)
               /\ mvTodo' = Tail(mvTodo)
               /\ UNCHANGED osPc
    /\ UNCHANGED <<strm, chunkNo, extractedDir, resultsTxt, resultsBuf, appended,
                   csvVars, dlVars, qVars, ixSegments, ixPending, ixClear, ixAdded,
                   ixCommitted, wPc, wTodo, wRuns>>

\* remove_dir_all(dl_dir), remove_dir_all(extract_dir)
main_remove_dirs ==
    /\ UNCHANGED pureVars
    /\ osPc = "move"
    /\ mvTodo = <<>>
    /\ IF dlDirState = "present" /\ extractedDir = "present"
       THEN /\ dlDir' = [t \in Tarballs |-> NoFile]
            /\ dlDirState' = "absent"
            /\ extracted' = RemovedTree(extracted)
            /\ extractedDir' = "absent"
            /\ osPc' = "create"
       ELSE /\ osPc' = "panicked"
            /\ UNCHANGED <<dlDir, dlDirState, extracted, extractedDir>>
    /\ UNCHANGED <<strm, chunkNo, resultsDir, resultsTxt, resultsBuf, appended,
                   mvTodo, csvVars, qVars, dlPc, dlRun, dlList, dlBefore, dlNext,
                   dlTask, dlResults, dlRequests, ixSegments, ixPending, ixClear,
                   ixAdded, ixCommitted, wPc, wTodo, wRuns>>

\* create_dir_all(dl_dir), create_dir_all(extract_dir)
main_create_dirs ==
    /\ UNCHANGED pureVars
    /\ osPc = "create"
    /\ dlDirState' = "present"
    /\ extractedDir' = "present"
    /\ osPc' = "clear"
    /\ UNCHANGED <<strm, chunkNo, resultsDir, resultsTxt, resultsBuf, appended,
                   mvTodo, csvVars, qVars, ixVars, dlPc, dlRun, dlList, dlDir,
                   dlBefore, dlNext, dlTask, dlResults, dlRequests>>

\* a chunk end that leaves the documents of the chunk in the index
main_keep_index ==
    /\ UNCHANGED pureVars
    /\ osPc = "clear"
    /\ osPc' = "rmtmp"
    /\ UNCHANGED <<strm, chunkNo, extractedDir, resultsDir, resultsTxt, resultsBuf,
                   appended, mvTodo, csvVars, dlVars, qVars, ixVars>>

\* writer.delete_all_documents(), writer.commit()
main_clear_index ==
    /\ UNCHANGED pureVars
    /\ osPc = "clear"
    /\ ixSegments' = Published(ixSegments, ixPending, TRUE)
    /\ ixPending' = <<>>
    /\ ixClear' = FALSE
    /\ ixCommitted' = Len(ixAdded)
    /\ osPc' = "rmtmp"
    /\ UNCHANGED <<strm, chunkNo, extractedDir, resultsDir, resultsTxt, resultsBuf,
                   appended, mvTodo, csvVars, dlVars, qVars, extracted, ixAdded, wPc,
                   wTodo, wRuns>>

\* std::fs::remove_file(&result_tmp), pb.inc: the chunk is completed
main_remove_tmp ==
    /\ UNCHANGED pureVars
    /\ osPc = "rmtmp"
    /\ IF saveFile.exists
       THEN saveFile' = NoFile /\ chunkNo' = chunkNo + 1 /\ osPc' = "chunk"
       ELSE osPc' = "panicked" /\ UNCHANGED <<saveFile, chunkNo>>
    /\ UNCHANGED <<strm, extractedDir, resultsDir, resultsTxt, resultsBuf, appended,
                   mvTodo, csvVars, dlVars, ixVars, query, qPc, qSave, qSnapshot,
                   qSeg, qDoc, qCount, qTop, qOpenStamp, qOpenCommit, qRuns,
                   saveBefore, sinkBuf>>

MainStep ==
    \/ main_list
    \/ main_chunk
    \/ main_download
    \/ main_extract
    \/ main_index
    \/ main_commit
    \/ main_search
    \/ main_copy
    \/ main_read_results
    \/ main_move_file
    \/ main_remove_dirs
    \/ main_create_dirs
    \/ main_clear_index
    \/ main_remove_tmp

(***************************************************************************)
(* dilarxiv-oneshot: result_file_to_csv, the parser and writer threads.    *)
(***************************************************************************)
\* span_parser_threads(5, &writer_channel)
NumParsers == 5

Parsers == 1..NumParsers

\* OpenOptions read, write, create(true), truncate(true): the file is emptied
OpenTruncate(file) == FileOf(<<>>)

\* reader.read_line(&mut line) keeps the line terminator, and edir.join(&line)
\* is the path of that name under results/
WithNewline(path) == path + 1000

\* parse_file(file_path, ..): the file it reads, none when it panics
\* (no file at the path, or not an xml file)
ParseFile(dir, path) == {f \in dir : PathOf(f) = path /\ IsXml(f)}

Ended(pc) == pc \in {"exited", "panicked"}

\* the thread of result_file_to_csv, at its position
result_file_to_csv ==
    /\ UNCHANGED pureVars
    /\ IF osPc = "csv_open"
       THEN \* open and truncate result_file, spawn_writer_thread, span_parser_threads
            /\ resultsTxt' = OpenTruncate(resultsTxt)
            /\ writerPc' = "spawned"
            /\ writerSenders' = 1 + NumParsers
            /\ parserPc' = [k \in Parsers |-> "spawned"]
            /\ txAlive' = [k \in Parsers |-> TRUE]
            /\ osPc' = "csv_read"
            /\ UNCHANGED <<csNext, csJoin, parserQueue>>
       ELSE IF osPc = "csv_read" /\ csNext < Len(resultsTxt.data)
       THEN \* read_line returned a line: tx.send(path) to parser i % 5
            LET k == (csNext % NumParsers) + 1 IN
               /\ IF Ended(parserPc[k])
                  THEN osPc' = "panicked" /\ UNCHANGED parserQueue
                  ELSE /\ parserQueue' =
                             [parserQueue EXCEPT
                                ![k] = Append(@, WithNewline(resultsTxt.data[csNext + 1]))]
                       /\ UNCHANGED osPc
               /\ csNext' = csNext + 1
               /\ UNCHANGED <<resultsTxt, writerPc, writerSenders, parserPc, txAlive,
                              csJoin>>
       ELSE IF osPc = "csv_read"
       THEN \* read_line returned 0
            /\ osPc' = "csv_join"
            /\ UNCHANGED <<resultsTxt, writerPc, writerSenders, parserPc, txAlive,
                           csNext, csJoin, parserQueue>>
       ELSE IF osPc = "csv_join" /\ csJoin <= NumParsers
       THEN \* handle.join().expect(..) returns when the thread has ended; drop(tx)
            /\ Ended(parserPc[csJoin])
            /\ IF parserPc[csJoin] = "panicked"
               THEN osPc' = "panicked" /\ UNCHANGED <<txAlive, csJoin>>
               ELSE /\ txAlive' = [txAlive EXCEPT ![csJoin] = FALSE]
                    /\ csJoin' = csJoin + 1
                    /\ UNCHANGED osPc
            /\ UNCHANGED <<resultsTxt, writerPc, writerSenders, parserPc, csNext,
                           parserQueue>>
       ELSE \* writer_handle.join().expect(..); drop(writer_channel); Ok(())
            /\ osPc = "csv_join"
            /\ writerPc = "exited"
            /\ writerSenders' = writerSenders - 1
            /\ osPc' = "done"
            /\ UNCHANGED <<resultsTxt, writerPc, parserPc, txAlive, csNext, csJoin,
                           parserQueue>>
    /\ UNCHANGED <<strm, chunkNo, extractedDir, resultsDir, resultsBuf, appended,
                   mvTodo, writerQueue, csvRows, dlVars, ixVars, qVars>>

\* a parser thread: while let Ok(file_path) = thread_rx.recv() { .. }
parser_thread(k) ==
    /\ UNCHANGED pureVars
    /\ osPc \in {"csv_read", "csv_join"}
    /\ IF parserPc[k] = "spawned"
       THEN \* the thread starts and calls recv
            /\ parserPc' = [parserPc EXCEPT ![k] = "recv"]
            /\ UNCHANGED <<parserQueue, writerQueue, writerSenders>>
       ELSE IF parserPc[k] = "recv" /\ parserQueue[k] # <<>>
       THEN \* recv returns a path: parse_file, writer_channel.send(content)
            /\ parserQueue' = [parserQueue EXCEPT ![k] = Tail(@)]
            /\ IF ParseFile(resultsDir, Head(parserQueue[k])) = {} \/ writerPc = "exited"
               THEN /\ parserPc' = [parserPc EXCEPT ![k] = "panicked"]
                    /\ writerSenders' = writerSenders - 1
                    /\ UNCHANGED writerQueue
               ELSE /\ writerQueue' = Append(writerQueue, Head(parserQueue[k]))
                    /\ UNCHANGED <<parserPc, writerSenders>>
       ELSE \* recv returns Err once the Sender is dropped and the queue is empty:
            \* the loop ends and the thread drops its clone of writer_channel
            /\ parserPc[k] = "recv"
            /\ ~txAlive[k]
            /\ parserPc' = [parserPc EXCEPT ![k] = "exited"]
            /\ writerSenders' = writerSenders - 1
            /\ UNCHANGED <<parserQueue, writerQueue>>
    /\ UNCHANGED <<mainVars, csNext, csJoin, txAlive, writerPc, csvRows, dlVars,
                   ixVars, qVars>>

\* the writer thread: while let Ok(row) = writer_rx.recv() { serialize }, flush
writer_thread ==
    /\ UNCHANGED pureVars
    /\ osPc \in {"csv_read", "csv_join"}
    /\ IF writerPc = "spawned"
       THEN \* the thread starts and calls recv
            /\ writerPc' = "recv"
            /\ UNCHANGED <<writerQueue, csvRows>>
       ELSE IF writerPc = "recv" /\ writerQueue # <<>>
       THEN \* recv returns a row: writer.serialize(row)
            /\ csvRows' = Append(csvRows, Head(writerQueue))
            /\ writerQueue' = Tail(writerQueue)
            /\ UNCHANGED writerPc
       ELSE \* recv returns Err once every Sender is dropped: writer.flush()
            /\ writerPc = "recv"
            /\ writerSenders = 0
            /\ writerPc' = "exited"
            /\ UNCHANGED <<writerQueue, csvRows>>
    /\ UNCHANGED <<mainVars, csNext, csJoin, parserPc, parserQueue, txAlive,
                   writerSenders, dlVars, ixVars, qVars>>

CsvStep ==
    \/ result_file_to_csv
    \/ \E k \in Parsers : parser_thread(k)
    \/ writer_thread

(***************************************************************************)
(* dumps/extractor.rs: the XML reader, reader_to_pre_dila and              *)
(* count_tags_in_file.                                                     *)
(***************************************************************************)
\* the element names of the documents: three recognized tags and one that
\* event_to_reading_state does not know
GenTags == {"ID", "DEMANDEUR", "CONTENU", "br"}

\* the names that occur as self-closing elements
EmptyTags == {"DEMANDEUR", "br"}

\* the character data of the documents, as written in the file
GenTexts == {"a", "&lt;"}

Event(kind, arg) == [kind |-> kind, arg |-> arg]

\* the elements open after the reader has returned an event
StackAfter(stack, e) ==
    IF e.kind = "Start" THEN <<e.arg>> \o stack
    ELSE IF e.kind = "End" THEN Tail(stack)
    ELSE stack

\* r.read_event(): the events the reader can return next. An end tag closes
\* the innermost open element (any other name is an Err), the input can end
\* anywhere (Eof) and can be malformed anywhere (Err)
NextEvents ==
    (IF Len(xmlEvents) < MaxEvents
     THEN {Event("Start", t) : t \in GenTags}
          \cup {Event("Empty", t) : t \in EmptyTags}
          \cup {Event("Text", c) : c \in GenTexts}
          \cup (IF xmlStack = <<>> THEN {} ELSE {Event("End", Head(xmlStack))})
     ELSE {})
    \cup {Event("Eof", ""), Event("Err", "")}

\* t.unescape().unwrap(): the character data with its entities resolved
Unescape(c) == IF c = "&lt;" THEN "<" ELSE c

\* fn event_to_reading_state(e: &[u8]) -> Option<ReadingState>
event_to_reading_state(name) ==
    CASE name = "ID" -> "ID"
      [] name = "ANCIEN_ID" -> "OldID"
      [] name = "ORIGINE" -> "Origin"
      [] name = "URL" -> "URL"
      [] name = "NATURE" -> "Nature"
      [] name = "TITRE" -> "Title"
      [] name = "DATE_DEC" -> "DecisionDate"
      [] name = "JURIDICTION" -> "Jurisdiction"
      [] name = "NUMERO" -> "JuriCode"
      [] name = "DEMANDEUR" -> "Requester"
      [] name = "PRESIDENT" -> "President"
      [] name = "AVOCATS" -> "Lawyers"
      [] name = "RAPPORTEUR" -> "Rapporteur"
      [] name = "COMMISSAIRE_GVT" -> "GovernmentCommissioner"
      [] name = "ECLI" -> "ECLICode"
      [] name = "CONTENU" -> "Text"
      [] OTHER -> "None"

\* the String fields and the Option<String> fields of PreDilaText
StringFields == {"id", "oldid", "origin", "url", "nature", "text"}

OptionFields ==
    {"title", "decision_date", "jurisdiction", "juri_code", "requester",
     "president", "lawyers", "rapporteur", "government_commissioner", "ecli_code"}

\* None and Some(s) of an Option<String>; a String is the sequence of the
\* pieces of character data it was built from
None == <<>>

Some(s) == <<s>>

\* impl Default for PreDilaText
DefaultPreDila ==
    [f \in StringFields \cup OptionFields |-> IF f \in StringFields THEN <<>> ELSE None]

\* the field update_pre_dila assigns in a state
FieldOf(state) ==
    CASE state = "ID" -> "id"
      [] state = "OldID" -> "oldid"
      [] state = "Origin" -> "origin"
      [] state = "URL" -> "url"
      [] state = "Nature" -> "nature"
      [] state = "Title" -> "title"
      [] state = "DecisionDate" -> "decision_date"
      [] state = "Jurisdiction" -> "jurisdiction"
      [] state = "JuriCode" -> "juri_code"
      [] state = "Requester" -> "requester"
      [] state = "President" -> "president"
      [] state = "Lawyers" -> "lawyers"
      [] state = "Rapporteur" -> "rapporteur"
      [] state = "GovernmentCommissioner" -> "government_commissioner"
      [] state = "ECLICode" -> "ecli_code"
      [] state = "Text" -> "text"

\* fn update_pre_dila(pre_dila, reading_state, text)
update_pre_dila(pre, state, text) ==
    IF state = "None" THEN pre
    ELSE IF state = "Text" THEN [pre EXCEPT !["text"] = @ \o <<text>>]
    ELSE IF FieldOf(state) \in StringFields THEN [pre EXCEPT ![FieldOf(state)] = <<text>>]
    ELSE [pre EXCEPT ![FieldOf(state)] = Some(<<text>>)]

\* a start tag that leaves the state of an element being read in place
OnStartKeepOuter(state, name) ==
    IF state # "None" THEN state ELSE event_to_reading_state(name)

\* Ok(Event::Start(e)): if let Some(s) = event_to_reading_state(..) { .. }
OnStart(state, name) ==
    IF event_to_reading_state(name) # "None" THEN event_to_reading_state(name)
    ELSE state

\* an end tag that always clears the state
OnEndAlways(state, name) == "None"

\* Ok(Event::End(e)): if s == reading_state { reading_state = None }
OnEnd(state, name) ==
    IF event_to_reading_state(name) = state THEN "None" ELSE state

\* a self-closing element handled as a start tag
OnEmptyAsStart(state, name) ==
    IF event_to_reading_state(name) # "None" THEN event_to_reading_state(name)
    ELSE state

\* _ => {}: Event::Empty (a self-closing element) changes nothing
OnEmpty(state, name) == state

\* one turn of the loop of reader_to_pre_dila
reader_to_pre_dila_event ==
    /\ xmlMode = "parse"
    /\ xmlPc = "read"
    /\ \E e \in NextEvents :
          /\ xmlEvents' = Append(xmlEvents, e)
          /\ xmlStack' = StackAfter(xmlStack, e)
          /\ xmlPc' = IF e.kind \in {"Eof", "Err"} THEN "done" ELSE "read"
          /\ reading_state' =
                CASE e.kind = "Start" -> OnStart(reading_state, e.arg)
                  [] e.kind = "End" -> OnEnd(reading_state, e.arg)
                  [] e.kind = "Empty" -> OnEmpty(reading_state, e.arg)
                  [] OTHER -> reading_state
          /\ pre_dila' =
                IF e.kind = "Text"
                THEN update_pre_dila(pre_dila, reading_state, Unescape(e.arg))
                ELSE pre_dila
    /\ UNCHANGED <<xmlMode, tag_count, yearVars, fondVars, moreVars, sysVars>>

\* one turn of the loop of count_tags_in_file
count_tags_in_file_event ==
    /\ xmlMode = "count"
    /\ xmlPc = "read"
    /\ \E e \in NextEvents :
          /\ xmlEvents' = Append(xmlEvents, e)
          /\ xmlStack' = StackAfter(xmlStack, e)
          /\ xmlPc' = IF e.kind \in {"Eof", "Err"} THEN "done" ELSE "read"
          /\ tag_count' =
                IF e.kind \in {"Start", "End"}
                THEN [tag_count EXCEPT ![e.arg] = @ + 1]
                ELSE tag_count
    /\ UNCHANGED <<xmlMode, reading_state, pre_dila, yearVars, fondVars, moreVars, sysVars>>

(***************************************************************************)
(* dumps/tarballs.rs: get_year_juri.                                       *)
(***************************************************************************)
\* a year group (?<year>\d*) as matched: its decimal digits, possibly none
Digits(n, d) == [i \in 1..n |-> d]

YearGroups == {<<>>, <<2, 0, 2, 3>>, <<1, 9, 9, 9>>, Digits(21, 9)}

\* re.captures_iter(doc): the year groups of the successive matches of
\* (?<year>\d*)-\d*-\d*</DATE in a raw document
RECURSIVE SeqsUpTo(_, _)
SeqsUpTo(S, n) ==
    IF n = 0 THEN {<<>>}
    ELSE SeqsUpTo(S, n - 1)
         \cup {Append(s, x) : s \in {t \in SeqsUpTo(S, n - 1) : Len(t) = n - 1}, x \in S}

RECURSIVE DecimalValue(_)
DecimalValue(digits) ==
    IF digits = <<>> THEN 0
    ELSE 10 * DecimalValue(SubSeq(digits, 1, Len(digits) - 1)) + digits[Len(digits)]

\* u64::MAX, 18446744073709551615
U64Max == <<1, 8, 4, 4, 6, 7, 4, 4, 0, 7, 3, 7, 0, 9, 5, 5, 1, 6, 1, 5>>

RECURSIVE StripZeros(_)
StripZeros(digits) ==
    IF digits # <<>> /\ Head(digits) = 0 THEN StripZeros(Tail(digits)) ELSE digits

\* a <= b for two digit strings of one length
RECURSIVE DigitsLeq(_, _)
DigitsLeq(a, b) ==
    \/ a = <<>>
    \/ Head(a) < Head(b)
    \/ Head(a) = Head(b) /\ DigitsLeq(Tail(a), Tail(b))

\* s.parse::<u64>().ok(): no digit, or a number above u64::MAX, is None
ParsesAsU64(digits) ==
    /\ digits # <<>>
    /\ \/ Len(StripZeros(digits)) < Len(U64Max)
       \/ Len(StripZeros(digits)) = Len(U64Max) /\ DigitsLeq(StripZeros(digits), U64Max)

\* a take(1) that keeps the last element
LastOf(s) == s[Len(s)]

\* .take(1), names[0]
FirstOf(s) == Head(s)

Ok(v) == [ok |-> TRUE, val |-> v]

Err == [ok |-> FALSE, val |-> 0]

\* fn get_year_juri(doc: &str, re: &regex::Regex) -> Result<u64>
get_year_juri(captures) ==
    LET names == SelectSeq(captures, ParsesAsU64) IN
       IF Len(names) > 0 THEN Ok(DecimalValue(FirstOf(names))) ELSE Err

get_year_juri_call ==
    /\ yrPc = "call"
    /\ yrResult' = get_year_juri(yrCaptures)
    /\ yrPc' = "done"
    /\ UNCHANGED <<yrCaptures, xmlVars, fondVars, moreVars, sysVars>>

(***************************************************************************)
(* dumps/fonds.rs: Fond, as_str and try_from.                              *)
(***************************************************************************)
\* pub const FONDS: &[Fond]
FONDS ==
    <<"Fond::JORF", "Fond::CNIL", "Fond::JADE", "Fond::LEGI", "Fond::INCA",
      "Fond::CASS", "Fond::CAPP">>

\* an as_str with an arm copied from its neighbour
as_str_copied(f) ==
    CASE f = "Fond::JORF" -> "JORF"
      [] f = "Fond::CNIL" -> "CNIL"
      [] f = "Fond::JADE" -> "JADE"
      [] f = "Fond::LEGI" -> "LEGI"
      [] f = "Fond::INCA" -> "LEGI"
      [] f = "Fond::CASS" -> "CASS"
      [] f = "Fond::CAPP" -> "CAPP"

\* pub fn as_str(&self) -> &'static str
as_str(f) ==
    CASE f = "Fond::JORF" -> "JORF"
      [] f = "Fond::CNIL" -> "CNIL"
      [] f = "Fond::JADE" -> "JADE"
      [] f = "Fond::LEGI" -> "LEGI"
      [] f = "Fond::INCA" -> "INCA"
      [] f = "Fond::CASS" -> "CASS"
      [] f = "Fond::CAPP" -> "CAPP"

\* impl TryFrom<String> for Fond
try_from(value) ==
    CASE value = "JORF" -> [ok |-> TRUE, fond |-> "Fond::JORF"]
      [] value = "CNIL" -> [ok |-> TRUE, fond |-> "Fond::CNIL"]
      [] value = "JADE" -> [ok |-> TRUE, fond |-> "Fond::JADE"]
      [] value = "LEGI" -> [ok |-> TRUE, fond |-> "Fond::LEGI"]
      [] value = "INCA" -> [ok |-> TRUE, fond |-> "Fond::INCA"]
      [] value = "CASS" -> [ok |-> TRUE, fond |-> "Fond::CASS"]
      [] value = "CAPP" -> [ok |-> TRUE, fond |-> "Fond::CAPP"]
      [] OTHER -> [ok |-> FALSE, fond |-> "Invalid fond"]

\* the strings try_from is given: the seven names and strings near them
FondStrings ==
    {"JORF", "CNIL", "JADE", "LEGI", "INCA", "CASS", "CAPP",
     "", "jorf", "JORF ", "KALI", "Fond::JORF"}

\* fond.as_str(), Fond::try_from(fond.as_str().to_string()), Fond::try_from(value)
fond_call ==
    /\ fdPc = "call"
    /\ fdStr' = as_str(fdFond)
    /\ fdBack' = try_from(as_str(fdFond))
    /\ fdParsed' = try_from(fdValue)
    /\ fdPc' = "done"
    /\ UNCHANGED <<fdFond, fdValue, xmlVars, yearVars, moreVars, sysVars>>

(***************************************************************************)
(* dumps/tarballs.rs: extract_date_from_tarball_name,                      *)
(* get_tarballs_from_page_content and list_tarballs.                       *)
(***************************************************************************)
\* the characters of the generated names, in byte order; a name is the
\* sequence of its characters, "." standing for its ending .tar.gz
Alphabet ==
    <<"-", ".", "0", "1", "2", "3", "4", "5", "6", "7", "8", "9", "C", "F", "_", "j">>

CharRank(c) == CHOOSE i \in DOMAIN Alphabet : Alphabet[i] = c

DigitChars == {"0", "1", "2", "3", "4", "5", "6", "7", "8", "9"}

DigitOf(c) == CharRank(c) - CharRank("0")

\* the matches of \w*-\w*.tar.gz a page can hold:
\* C_20231125-1, C_20240101-2, F_j_20231119-1, C_2023111-1 (seven digits),
\* C_20231340-1 (no such month) and C-1 (no date)
GenNames ==
    {<<"C", "_", "2", "0", "2", "3", "1", "1", "2", "5", "-", "1", ".">>,
     <<"C", "_", "2", "0", "2", "4", "0", "1", "0", "1", "-", "2", ".">>,
     <<"F", "_", "j", "_", "2", "0", "2", "3", "1", "1", "1", "9", "-", "1", ".">>,
     <<"C", "_", "2", "0", "2", "3", "1", "1", "1", "-", "1", ".">>,
     <<"C", "_", "2", "0", "2", "3", "1", "3", "4", "0", "-", "1", ".">>,
     <<"C", "-", "1", ".">>}

\* the order of String: byte by byte, a proper prefix first
RECURSIVE NameLess(_, _)
NameLess(a, b) ==
    IF b = <<>> THEN FALSE
    ELSE IF a = <<>> THEN TRUE
    ELSE IF Head(a) # Head(b) THEN CharRank(Head(a)) < CharRank(Head(b))
    ELSE NameLess(Tail(a), Tail(b))

\* names.sort()
RECURSIVE InsertSorted(_, _)
InsertSorted(sorted, n) ==
    IF sorted = <<>> THEN <<n>>
    ELSE IF NameLess(n, Head(sorted)) THEN <<n>> \o sorted
    ELSE <<Head(sorted)>> \o InsertSorted(Tail(sorted), n)

\* a sort that leaves the names in page order
SortNothing(names) == names

RECURSIVE Sort(_)
Sort(names) ==
    IF names = <<>> THEN <<>>
    ELSE InsertSorted(Sort(SubSeq(names, 1, Len(names) - 1)), names[Len(names)])

\* names.dedup(): consecutive equal elements collapse to the first
RECURSIVE Dedup(_)
Dedup(names) ==
    IF Len(names) < 2 THEN names
    ELSE IF names[1] = names[2] THEN Dedup(Tail(names))
    ELSE <<Head(names)>> \o Dedup(Tail(names))

\* name.split(sep): the segments of a name between the separators
RECURSIVE Split(_, _)
Split(name, sep) ==
    IF \A i \in DOMAIN name : name[i] # sep THEN <<name>>
    ELSE LET i == CHOOSE k \in DOMAIN name :
                     name[k] = sep /\ \A j \in 1..(k - 1) : name[j] # sep
         IN  <<SubSeq(name, 1, i - 1)>> \o Split(SubSeq(name, i + 1, Len(name)), sep)

\* a date_part taken from the first segment between '_'
DatePartOfFirst(name) == Head(Split(Head(Split(name, "_")), "-"))

\* name.split('_').collect::<Vec<_>>().last()?.split('-').next()?
DatePart(name) ==
    LET segments == Split(name, "_") IN Head(Split(segments[Len(segments)], "-"))

RECURSIVE Number(_)
Number(chars) ==
    IF chars = <<>> THEN 0
    ELSE 10 * Number(SubSeq(chars, 1, Len(chars) - 1)) + DigitOf(chars[Len(chars)])

LeapYear(y) == (y % 4 = 0 /\ y % 100 # 0) \/ y % 400 = 0

DaysIn(y, m) ==
    IF m = 2 THEN (IF LeapYear(y) THEN 29 ELSE 28)
    ELSE IF m \in {4, 6, 9, 11} THEN 30 ELSE 31

NaiveDate(y, m, d) == [year |-> y, month |-> m, day |-> d]

\* NaiveDate::parse_from_str(date_part, "%Y%m%d"): %Y takes up to four
\* digits, %m and %d up to two each, at least one each, nothing may remain
\* and the three numbers must name a day of the calendar; <<>> is an Err
parse_from_str(part) ==
    LET n == Len(part)
        yLen == Min(4, n)
        mLen == Min(2, n - yLen)
        dLen == Min(2, n - yLen - mLen)
        y == Number(SubSeq(part, 1, yLen))
        m == Number(SubSeq(part, yLen + 1, yLen + mLen))
        d == Number(SubSeq(part, yLen + mLen + 1, yLen + mLen + dLen))
    IN  IF /\ \A i \in DOMAIN part : part[i] \in DigitChars
           /\ mLen >= 1
           /\ dLen >= 1
           /\ yLen + mLen + dLen = n
           /\ m \in 1..12
           /\ d \in 1..DaysIn(y, m)
        THEN <<NaiveDate(y, m, d)>>
        ELSE <<>>

Panic == [kind |-> "panic", val |-> <<>>]

Returned(v) == [kind |-> "ok", val |-> v]

Failed == [kind |-> "err", val |-> <<>>]

\* fn extract_date_from_tarball_name: .expect(..) panics on a date that does
\* not parse
extract_date_from_tarball_name(name) ==
    IF parse_from_str(DatePart(name)) = <<>> THEN Panic
    ELSE Returned(parse_from_str(DatePart(name))[1])

Tarball(name, fond, time) == [name |-> name, fond |-> fond, time |-> time]

\* pub fn get_tarballs_from_page_content(fond, content) -> Vec<Tarball>,
\* content being given by the names the pattern matches in it
get_tarballs_from_page_content(fond, content) ==
    LET names == Dedup(Sort(content)) IN
       IF \E i \in DOMAIN names : extract_date_from_tarball_name(names[i]).kind = "panic"
       THEN Panic
       ELSE Returned([i \in DOMAIN names |->
                        Tarball(names[i], fond, extract_date_from_tarball_name(names[i]).val)])

\* what the server answers: send()? fails, a status that is not a success,
\* response.text() fails, or a body is received
Responses == {"send_error", "status_404", "text_error", "body"}

\* pub async fn list_tarballs(client, fond) -> Result<Vec<Tarball>>
list_tarballs(fond, response, content) ==
    IF response = "body" THEN get_tarballs_from_page_content(fond, content)
    ELSE Failed

\* a call of list_tarballs
list_tarballs_call ==
    /\ lsPc = "call"
    /\ lsResult' = list_tarballs(lsFond, lsResponse, lsContent)
    /\ lsPc' = "returned"
    /\ UNCHANGED <<lsFond, lsResponse, lsContent, lsAgain>>
    /\ UNCHANGED <<fcVars, cmdVars, xmlVars, yearVars, fondVars, sysVars>>

\* a second call, to which the server gives the same answer
list_tarballs_again ==
    /\ lsPc = "returned"
    /\ lsAgain' = list_tarballs(lsFond, lsResponse, lsContent)
    /\ lsPc' = "again"
    /\ UNCHANGED <<lsFond, lsResponse, lsContent, lsResult>>
    /\ UNCHANGED <<fcVars, cmdVars, xmlVars, yearVars, fondVars, sysVars>>

(***************************************************************************)
(* dumps/tarballs.rs, mod file_collector: segment collectors that run      *)
(* concurrently on the shared Arc<Mutex<BufWriter<File>>>.                 *)
(***************************************************************************)
Collectors == 1..NumCollectors

\* the documents of a segment the query matches: two in the first segment,
\* one in every other
HitsOf(c) == IF c = 1 THEN 2 ELSE 1

\* the path of the k-th hit of the segment of collector c
HitPath(c, k) == PathOf(2 * c + k)

CollectorOf(path) ==
    CHOOSE c \in Collectors : \E k \in 1..HitsOf(c) : HitPath(c, k) = path

\* the "\n" of write!(lock, "{}\n", s), among paths that are numbers
Newline == 0

\* a Mutex that lets every caller in
MutexAlwaysFree(holder) == TRUE

\* self.bufwriter.lock(): returns when no guard is alive
MutexFree(holder) == holder = 0

\* BufWriter::write_all: a full buffer is written to the file first
BufWrite(file, buf, x) ==
    IF Len(buf) + 1 > BufCapacity
    THEN [file |-> file \o buf, buf |-> <<x>>]
    ELSE [file |-> file, buf |-> Append(buf, x)]

FcFrame == UNCHANGED <<listVars, cmdVars, xmlVars, yearVars, fondVars, sysVars>>

\* collect: the path field is a Str, let mut lock = self.bufwriter.lock()
collect_lock(c) ==
    /\ FcFrame
    /\ fcPc[c] = "run"
    /\ fcTodo[c] # <<>>
    /\ MutexFree(fcHolder)
    /\ fcHolder' = c
    /\ fcPc' = [fcPc EXCEPT ![c] = "path"]
    /\ UNCHANGED <<fcTodo, fcBuf, fcFile>>

\* write!(lock, "{}\n", s): the write of the argument s
collect_write_path(c) ==
    /\ FcFrame
    /\ fcPc[c] = "path"
    /\ fcBuf' = BufWrite(fcFile, fcBuf, Head(fcTodo[c])).buf
    /\ fcFile' = BufWrite(fcFile, fcBuf, Head(fcTodo[c])).file
    /\ fcPc' = [fcPc EXCEPT ![c] = "newline"]
    /\ UNCHANGED <<fcTodo, fcHolder>>

\* write!(lock, "{}\n", s): the write of "\n", then the guard is dropped
collect_write_newline(c) ==
    /\ FcFrame
    /\ fcPc[c] = "newline"
    /\ fcBuf' = BufWrite(fcFile, fcBuf, Newline).buf
    /\ fcFile' = BufWrite(fcFile, fcBuf, Newline).file
    /\ fcTodo' = [fcTodo EXCEPT ![c] = Tail(@)]
    /\ fcHolder' = IF fcHolder = c THEN 0 ELSE fcHolder
    /\ fcPc' = [fcPc EXCEPT ![c] = "run"]

\* harvest: let mut lock = self.bufwriter.lock()
harvest_lock(c) ==
    /\ FcFrame
    /\ fcPc[c] = "run"
    /\ fcTodo[c] = <<>>
    /\ MutexFree(fcHolder)
    /\ fcHolder' = c
    /\ fcPc' = [fcPc EXCEPT ![c] = "flush"]
    /\ UNCHANGED <<fcTodo, fcBuf, fcFile>>

\* harvest: lock.flush(), then the guard is dropped
harvest_flush(c) ==
    /\ FcFrame
    /\ fcPc[c] = "flush"
    /\ fcFile' = fcFile \o fcBuf
    /\ fcBuf' = <<>>
    /\ fcHolder' = IF fcHolder = c THEN 0 ELSE fcHolder
    /\ fcPc' = [fcPc EXCEPT ![c] = "harvested"]
    /\ UNCHANGED fcTodo

CollectStep ==
    \E c \in Collectors :
       \/ collect_lock(c)
       \/ collect_write_path(c)
       \/ collect_write_newline(c)
       \/ harvest_lock(c)
       \/ harvest_flush(c)

(***************************************************************************)
(* The --update command of the persistent binary: get_tarballs,            *)
(* extract_tarballs, update_and_index_data and the end of main.            *)
(***************************************************************************)
Archives == 1..NumArchives

\* the fond whose page lists the archive
FondOfArchive(t) == IF t % 2 = 1 THEN 1 ELSE 2

ArchivesOf(fond) == {t \in Archives : FondOfArchive(t) = fond}

\* the file an archive unpacks to; archives hold different files
FilesOf(t) == {t}

\* names.sort(); names.dedup() of the names matched in the page
SortedNames(names) == SelectSeq([t \in Archives |-> t], LAMBDA t : t \in names)

\* client.get(url).send() failed, the status is not 2xx, or the body was read
UpResponses == {"send_error", "status", "body"}

\* download_tarball on a path that does not exist: the whole body, a stream
\* cut short that leaves the file created and partly written, or no file
\* (send error, status that is not 2xx)
Downloads == {"whole", "corrupt", "absent"}

UpFrame == UNCHANGED <<rcVars, osListing, mnVars, listVars, fcVars, xmlVars, yearVars,
                       fondVars, sysVars>>

\* main with --update: the run starts, tmpd = cwd.join("tmp")
update_start ==
    /\ upPc \in {"idle", "done", "panicked"}
    /\ upRun < MaxRuns
    /\ upRun' = upRun + 1
    /\ upPc' = "list"
    /\ upFond' = 1
    /\ upHad' = {t \in Archives : upTdir[t] # "absent"}
    /\ upListing' = [f \in Fonds |-> "none"]
    /\ upTb' = <<>>
    /\ upTodo' = <<>>
    /\ upCalled' = {}
    /\ upFailed' = {}
    /\ UNCHANGED <<upTdir, upTmpExists, upTmp, upEdir, upIndex>>
    /\ UpFrame

\* one turn of for fond in fonds: download_tarballs lists the page, downloads
\* the listed names that have no file yet, and returns all the listed names;
\* an Err is logged and the loop goes on
get_tarballs_fond ==
    /\ upPc = "list"
    /\ upFond \in Fonds
    /\ \E response \in UpResponses, names \in SUBSET ArchivesOf(upFond),
          got \in [Archives -> Downloads] :
          /\ \A t \in Archives :
                (t \notin names \/ upTdir[t] # "absent") => got[t] = "absent"
          /\ upListing' = [upListing EXCEPT ![upFond] = response]
          /\ IF response = "body"
             THEN /\ upTdir' = [t \in Archives |->
                                  IF t \in names /\ upTdir[t] = "absent"
                                  THEN got[t] ELSE upTdir[t]]
                  /\ upTb' = upTb \o SortedNames(names)
             ELSE UNCHANGED <<upTdir, upTb>>
    /\ upFond' = upFond + 1
    /\ UNCHANGED <<upPc, upRun, upHad, upTodo, upCalled, upFailed, upTmpExists,
                   upTmp, upEdir, upIndex>>
    /\ UpFrame

\* get_tarballs returns Ok(tarballs); if tb.is_empty() { return Ok(()) }
get_tarballs_return ==
    /\ upPc = "list"
    /\ upFond \notin Fonds
    /\ IF upTb = <<>>
       THEN upPc' = "cleanup" /\ UNCHANGED upTodo
       ELSE upPc' = "extract" /\ upTodo' = upTb
    /\ UNCHANGED <<upRun, upFond, upTdir, upHad, upListing, upTb, upCalled,
                   upFailed, upTmpExists, upTmp, upEdir, upIndex>>
    /\ UpFrame

\* what extract_tarballs goes on with after extract_tarball returned Err
AbortOnExtractError(rest) == <<>>
AfterExtractError(rest) == rest

\* one turn of for p in to_extract: a warning when the file does not exist;
\* else extract_tarball, whose unpack creates the directory, and whose Err on
\* an archive cut short comes after some of its entries may have been written
extract_tarballs_one ==
    /\ upPc = "extract"
    /\ upTodo # <<>>
    /\ LET t == Head(upTodo) IN
       CASE upTdir[t] = "absent" ->
              /\ upTodo' = Tail(upTodo)
              /\ UNCHANGED <<upCalled, upFailed, upTmpExists, upTmp>>
         [] upTdir[t] = "whole" ->
              /\ upTodo' = Tail(upTodo)
              /\ upCalled' = upCalled \cup {t}
              /\ upTmpExists' = TRUE
              /\ upTmp' = upTmp \cup FilesOf(t)
              /\ UNCHANGED upFailed
         [] upTdir[t] = "corrupt" ->
              /\ upTodo' = AfterExtractError(Tail(upTodo))
              /\ upCalled' = upCalled \cup {t}
              /\ upFailed' = upFailed \cup {t}
              /\ upTmpExists' = TRUE
              /\ \E written \in SUBSET FilesOf(t) : upTmp' = upTmp \cup written
    /\ UNCHANGED <<upPc, upRun, upFond, upTdir, upHad, upListing, upTb, upEdir,
                   upIndex>>
    /\ UpFrame

\* extract_tarballs returns Ok(())
extract_tarballs_return ==
    /\ upPc = "extract"
    /\ upTodo = <<>>
    /\ upPc' = "index"
    /\ UNCHANGED <<upRun, upFond, upTdir, upHad, upListing, upTb, upTodo,
                   upCalled, upFailed, upTmpExists, upTmp, upEdir, upIndex>>
    /\ UpFrame

\* index_files_in_dir(&mut writer, &flds, &tmpd).expect(..) and
\* writer.commit(): a document for every file under tmp; list_files_in_dir
\* fails on a directory that does not exist and the expect panics
update_index ==
    /\ upPc = "index"
    /\ IF upTmpExists
       THEN /\ upIndex' = [f \in Archives |->
                             upIndex[f] + (IF f \in upTmp THEN 1 ELSE 0)]
            /\ upPc' = "move"
       ELSE upPc' = "panicked" /\ UNCHANGED upIndex
    /\ UNCHANGED <<upRun, upFond, upTdir, upHad, upListing, upTb, upTodo,
                   upCalled, upFailed, upTmpExists, upTmp, upEdir>>
    /\ UpFrame

\* the files under tmp are renamed into extracted, over the files of the
\* same path; the directories of tmp stay
update_move ==
    /\ upPc = "move"
    /\ upEdir' = upEdir \cup upTmp
    /\ upTmp' = {}
    /\ upPc' = "cleanup"
    /\ UNCHANGED <<upRun, upFond, upTdir, upHad, upListing, upTb, upTodo,
                   upCalled, upFailed, upTmpExists, upIndex>>
    /\ UpFrame

\* main: if tmpd.exists() { remove_dir_all(&tmpd) }
update_cleanup ==
    /\ upPc = "cleanup"
    /\ upTmpExists' = FALSE
    /\ upTmp' = {}
    /\ upPc' = "done"
    /\ UNCHANGED <<upRun, upFond, upTdir, upHad, upListing, upTb, upTodo,
                   upCalled, upFailed, upEdir, upIndex>>
    /\ UpFrame

UpdateStep ==
    \/ update_start
    \/ get_tarballs_fond
    \/ get_tarballs_return
    \/ extract_tarballs_one
    \/ extract_tarballs_return
    \/ update_index
    \/ update_move
    \/ update_cleanup

(***************************************************************************)
(* The --csv command of the persistent binary: result_file_to_csv.         *)
(***************************************************************************)
\* the path of a file of extracted as query --save writes it: parse_file
\* strips the directory that was indexed
SavedLine(f) == PathOf(f)

\* the path of the same file from the current directory, extracted/<path>
CwdLine(f) == 1000 + PathOf(f)

\* what is wrong with the one file that is not a good document: it is not
\* there, its extension is not xml, the reader returns an Err event in it,
\* or one of its texts holds an escape that unescape rejects
BadKinds == {"missing", "not_xml", "malformed", "bad_escape"}

KindOf(f) == IF f = rcBad THEN rcKind ELSE "good"

\* the file File::open(line) opens: paths are resolved from the current
\* directory, where the corpus is under extracted
Opened(line) == {f \in Files : CwdLine(f) = line /\ KindOf(f) # "missing"}

\* count_tags_in_file: File::open(file).unwrap()
CountPanics(line) == Opened(line) = {}

\* parse_file: the three panic! of the checks, t.unescape().unwrap()
ParsePanics(line) ==
    \/ Opened(line) = {}
    \/ \E f \in Opened(line) : KindOf(f) \in {"not_xml", "bad_escape"}

\* the record parse_file returns: reader_to_pre_dila leaves its loop at an
\* Err event and returns what it has filled so far
Row(line) ==
    [path |-> line, whole |-> \A f \in Opened(line) : KindOf(f) = "good"]

\* the header row the writer puts before the first record it serializes
Header == [path |-> 0, whole |-> TRUE]

RcFrame == UNCHANGED <<upVars, osListing, mnVars, listVars, fcVars, xmlVars, yearVars,
                       fondVars, sysVars>>

\* one turn of for line in reader.lines(): count_tags_in_file, parse_file,
\* writer.serialize(content)
result_file_to_csv_line ==
    /\ rcPc = "loop"
    /\ rcNext <= Len(rcLines)
    /\ LET line == rcLines[rcNext] IN
       IF CountPanics(line) \/ ParsePanics(line)
       THEN rcPc' = "panicked" /\ UNCHANGED <<rcNext, rcRows>>
       ELSE /\ rcRows' = (IF rcRows = <<>> THEN <<Header>> ELSE rcRows)
                            \o <<Row(line)>>
            /\ rcNext' = rcNext + 1
            /\ UNCHANGED rcPc
    /\ UNCHANGED <<rcLines, rcBad, rcKind>>
    /\ RcFrame

\* writer.flush()?, the counts are printed, Ok(())
result_file_to_csv_return ==
    /\ rcPc = "loop"
    /\ rcNext > Len(rcLines)
    /\ rcPc' = "done"
    /\ UNCHANGED <<rcLines, rcNext, rcBad, rcKind, rcRows>>
    /\ RcFrame

(***************************************************************************)
(* main of the persistent binary: the phases the flags select.             *)
(***************************************************************************)
\* the flags of Cli that select a phase
Flags == {"tarballs", "extract", "index", "update", "query", "csv"}

\* Cli::parse(): a field is set when its flag is on the command line,
\* wherever it stands
Args(argv) == [f \in Flags |-> f \in Range(argv)]

\* a phase that runs whenever its flag is set
StandaloneAlways(args, flag) == args[flag]

\* if args.tarballs && !args.update, and the same for extract and index
Standalone(args, flag) == args[flag] /\ ~args["update"]

MnFrame == UNCHANGED <<upVars, rcVars, osListing, listVars, fcVars, xmlVars,
                       yearVars, fondVars, sysVars>>

\* if args.tarballs && !args.update { get_tarballs(..).expect(..) }: the
\* directory is created when a page lists a tarball
dilarxiv_tarballs ==
    /\ mnPc = "tarballs"
    /\ IF Standalone(Args(mnArgv), "tarballs")
       THEN /\ mnRan' = Append(mnRan, "download")
            /\ \E created \in BOOLEAN : mnTdir' = (mnTdir \/ created)
       ELSE UNCHANGED <<mnRan, mnTdir>>
    /\ mnPc' = "extract"
    /\ UNCHANGED <<mnArgv, mnWriters>>
    /\ MnFrame

\* if args.extract && !args.update { list_all_tarballs(&dir).expect(..);
\* extract_tarballs(..).expect(..) }: read_dir fails on a missing directory
dilarxiv_extract ==
    /\ mnPc = "extract"
    /\ IF Standalone(Args(mnArgv), "extract")
       THEN IF mnTdir
            THEN mnRan' = Append(mnRan, "extract") /\ mnPc' = "index"
            ELSE mnPc' = "panicked" /\ UNCHANGED mnRan
       ELSE mnPc' = "index" /\ UNCHANGED mnRan
    /\ UNCHANGED <<mnArgv, mnTdir, mnWriters>>
    /\ MnFrame

\* init_tantivy; if args.index && !args.update { let mut writer =
\* index.writer(..); index_files_in_dir(&mut writer, ..) .. }
dilarxiv_index ==
    /\ mnPc = "index"
    /\ IF Standalone(Args(mnArgv), "index")
       THEN /\ mnWriters' = mnWriters + 1
            /\ mnRan' = Append(mnRan, "index")
            /\ mnPc' = "index_end"
       ELSE mnPc' = "update" /\ UNCHANGED <<mnWriters, mnRan>>
    /\ UNCHANGED <<mnArgv, mnTdir>>
    /\ MnFrame

\* the end of the block of the index phase: writer is dropped
dilarxiv_index_end ==
    /\ mnPc = "index_end"
    /\ mnWriters' = mnWriters - 1
    /\ mnPc' = "update"
    /\ UNCHANGED <<mnArgv, mnTdir, mnRan>>
    /\ MnFrame

\* if args.update { update_and_index_data(..) .. }: the function returns
\* before index.writer(..) when get_tarballs gave no name
dilarxiv_update ==
    /\ mnPc = "update"
    /\ IF Args(mnArgv)["update"]
       THEN /\ mnRan' = Append(mnRan, "update")
            /\ \E names \in BOOLEAN :
                  IF names
                  THEN /\ mnWriters' = mnWriters + 1
                       /\ mnTdir' = TRUE
                       /\ mnPc' = "update_end"
                  ELSE mnPc' = "query" /\ UNCHANGED <<mnWriters, mnTdir>>
       ELSE mnPc' = "query" /\ UNCHANGED <<mnRan, mnWriters, mnTdir>>
    /\ UNCHANGED mnArgv
    /\ MnFrame

\* update_and_index_data returns: its writer is dropped; tmp is removed
dilarxiv_update_end ==
    /\ mnPc = "update_end"
    /\ mnWriters' = mnWriters - 1
    /\ mnPc' = "query"
    /\ UNCHANGED <<mnArgv, mnTdir, mnRan>>
    /\ MnFrame

\* if let Some(query) = args.query { search_index(..) }: an Err is logged
dilarxiv_query ==
    /\ mnPc = "query"
    /\ mnRan' = IF Args(mnArgv)["query"] THEN Append(mnRan, "query") ELSE mnRan
    /\ mnPc' = "csv"
    /\ UNCHANGED <<mnArgv, mnTdir, mnWriters>>
    /\ MnFrame

\* if let Some(result_file) = args.csv { result_file_to_csv(..).expect(..) }
dilarxiv_csv ==
    /\ mnPc = "csv"
    /\ IF Args(mnArgv)["csv"]
       THEN /\ mnRan' = Append(mnRan, "csv")
            /\ \E ok \in BOOLEAN : mnPc' = IF ok THEN "done" ELSE "panicked"
       ELSE mnPc' = "done" /\ UNCHANGED mnRan
    /\ UNCHANGED <<mnArgv, mnTdir, mnWriters>>
    /\ MnFrame

DilarxivStep ==
    \/ dilarxiv_tarballs
    \/ dilarxiv_extract
    \/ dilarxiv_index
    \/ dilarxiv_index_end
    \/ dilarxiv_update
    \/ dilarxiv_update_end
    \/ dilarxiv_query
    \/ dilarxiv_csv

(***************************************************************************)
(* Claims about download_tarball_list.                                     *)
(***************************************************************************)
Listed == DOMAIN dlTask

Complete(t) == dlDir[t].exists /\ dlDir[t].data = Body(t)

\* C4: a descriptor whose download failed (non-2xx status, stream error, file
\* error, send error) is not in the returned newly-downloaded set, and the call
\* fails only when the directory cannot be created.
C4_FailedDownloadOmitted ==
    /\ dlPc = "returned" =>
          \A t \in Listed : dlTask[t].fail # "none" => t \notin Range(dlResults)
    /\ dlPc = "failed" => dlDirState = "uncreatable"

\* C5: a file that exists when the call is entered gets no request, keeps its
\* bytes and is not reported as newly downloaded; a call on a directory that
\* holds every listed file returns no new download.
C5_DownloadIdempotent ==
    /\ \A t \in Listed :
          dlBefore[t].exists =>
             /\ t \notin dlRequests
             /\ dlDir[t] = dlBefore[t]
             /\ t \notin Range(dlResults)
    /\ (dlPc = "returned" /\ \A t \in Listed : dlBefore[t].exists) =>
          dlResults = <<>>

\* a re-run on a fully populated directory has returned, every future Ok(false)
C5_Witness ==
    /\ dlRun = 2
    /\ dlPc = "returned"
    /\ \A t \in Listed : dlBefore[t].exists /\ dlTask[t].ret = "false"

\* C6: after a kill during a download, every file found at a target path holds
\* the complete body, so that the later run's path.exists() is right to skip it.
C6_NoHalfFileAfterKill ==
    dlPc = "killed" => \A t \in Listed : dlDir[t].exists => Complete(t)

\* C7: at most 10 descriptors are in flight at every instant, and every
\* descriptor of the list is eventually started.
C7_BoundedInFlight ==
    /\ [](Cardinality(InFlight) <= 10)
    /\ <>(\A t \in Listed : dlTask[t].pc # "pending")

\* the queue is full while a descriptor still waits in the iterator
C7_Witness == Cardinality(InFlight) = 10 /\ dlNext <= Len(dlList)


(***************************************************************************)
(* Claims about the index and search_index.                                *)
(***************************************************************************)
\* the documents of the searcher of the current search_index call
Seen == Range(Flatten(qSnapshot))

Searching == qPc \in {"collect", "done"}

\* the lines search_index has added to the save file since it was entered
Appended == SubSeq(saveFile.data, Len(saveBefore.data) + 1, Len(saveFile.data))

MatchingPaths == {d.path : d \in {x \in Seen : Matches(query, x)}}

\* C3 (as stated): when a query run with a save sink returns, the save file
\* has totalCount lines and every line is the path of a matching document.
C3_SaveLinesEqualTotalCount ==
    (qPc = "done" /\ qSave) =>
        /\ Len(saveFile.data) = qCount
        /\ Range(saveFile.data) \subseteq MatchingPaths

\* C3 (amended): when a query run with a save sink returns, the save file is
\* what it held before the call followed by totalCount new lines, each the path
\* of a matching document.
C3_SaveAppendsTotalCount ==
    (qPc = "done" /\ qSave) =>
        /\ saveFile.exists
        /\ Len(saveFile.data) = Len(saveBefore.data) + qCount
        /\ SubSeq(saveFile.data, 1, Len(saveBefore.data)) = saveBefore.data
        /\ Range(Appended) \subseteq MatchingPaths
        /\ qCount = Len(SelectMatching(Flatten(qSnapshot), query))

\* a second query with matches has returned on a save file that held lines
C3_Witness ==
    /\ qPc = "done"
    /\ qSave
    /\ qCount > 0
    /\ saveBefore.data # <<>>

\* C10: a searcher sees exactly the documents added before the last commit that
\* preceded its opening: none added after it was opened, all of those committed
\* before, and what the query counts and returns comes from that set only.
C10_CommitAtomicity ==
    Searching =>
        /\ \A d \in Seen : d.stamp <= qOpenStamp
        /\ Seen = {ixAdded[i] : i \in 1..qOpenCommit}
        /\ qTop \subseteq Seen
        /\ qCount <= Cardinality({d \in Seen : Matches(query, d)})
        /\ qPc = "done" => qCount = Cardinality({d \in Seen : Matches(query, d)})

\* a query opened after one commit has returned its matches while the writer
\* had added, and committed, further documents since the opening
C10_Witness ==
    /\ qPc = "done"
    /\ qOpenCommit > 0
    /\ qCount > 0
    /\ qOpenStamp > qOpenCommit
    /\ ixCommitted > qOpenStamp

(***************************************************************************)
(* Claims about dilarxiv-oneshot.                                          *)
(***************************************************************************)
\* the lines written to result_file_final, on disk or still in its buffer
ResultLines == resultsTxt.data \o resultsBuf

UnderResults(line) == \E f \in resultsDir : PathOf(f) = line

\* the loop has completed at least one chunk and stands between two chunks
\* or at its end
ChunkCompleted == osPc \in {"chunk", "csv_open"} /\ chunkNo > 1

\* C1: once the dispatcher has read all lines of results.txt, the parser
\* threads exit, the writer thread exits and result_file_to_csv returns.
C1_FinalizationTerminates == (osPc = "csv_join") ~> (osPc = "done")

\* C2: when the dispatcher has read results.txt to its end it has read and
\* dispatched every line the chunk loop appended, and when the finalization
\* returns the CSV holds one data row per such line.
C2_FinalizationReadsEveryLine ==
    /\ osPc \in {"csv_join", "done"} => csNext = Len(appended)
    /\ osPc = "done" => Len(csvRows) = Len(appended)

\* C8: after each completed chunk tarballs/ and extracted/ both exist and
\* hold no file.
C8_DirsEmptyAfterChunk ==
    ChunkCompleted =>
        /\ dlDirState = "present"
        /\ \A t \in Tarballs : ~dlDir[t].exists
        /\ extractedDir = "present"
        /\ extracted = {}

\* a chunk in which a download left a cut file, files were extracted and one
\* of them matched has been completed
C8_Witness ==
    /\ ChunkCompleted
    /\ \E t \in Tarballs : dlTask[t].fail = "stream"
    /\ wRuns > 0
    /\ ixAdded # <<>>
    /\ resultsDir # {}

\* C9: when the loop removes extracted/, every path of results_tmp.txt names a
\* file under results/ and none under extracted/; between two chunks and after
\* the loop every line of results.txt names a file under results/.
C9_MatchesMovedBeforeRemoval ==
    /\ (osPc = "move" /\ mvTodo = <<>>) =>
          \A i \in DOMAIN saveFile.data :
             /\ UnderResults(saveFile.data[i])
             /\ ~\E f \in extracted : PathOf(f) = saveFile.data[i]
    /\ osPc \in {"chunk", "csv_open"} =>
          /\ ResultLines = appended
          /\ \A i \in DOMAIN ResultLines : UnderResults(ResultLines[i])

\* the loop has ended after two chunks that each had a match
C9_Witness ==
    /\ osPc = "csv_open"
    /\ chunkNo = 3
    /\ Len(ResultLines) >= 2
    /\ Cardinality(resultsDir) >= 2

\* the index was cleared and committed at least once and nothing was added
\* to the writer since
ClearedAndCommitted ==
    \/ osPc = "rmtmp"
    \/ osPc \in {"chunk", "download", "extract", "index", "csv_open"} /\ chunkNo > 1

\* a search_index call of the current chunk is running or has returned
ChunkSearched == osPc \in {"searching", "read", "move", "create", "clear", "rmtmp"}

\* C11: after delete_all_documents followed by commit a newly opened reader
\* sees no document, and a later query sees and matches only documents added
\* after that commit, the documents of the files of the current chunk.
C11_DeleteAllOnCommit ==
    /\ ClearedAndCommitted => Flatten(OpenSearcher(ixSegments, ixPending)) = <<>>
    /\ (ChunkSearched /\ Searching) =>
          /\ \A d \in Seen : Holder(d.body) \in Range(Chunk(strm, chunkNo))
          /\ \A d \in qTop : Holder(d.body) \in Range(Chunk(strm, chunkNo))
          /\ qCount <= Cardinality({d \in Seen : Matches(query, d)})

\* the query of the second chunk has matched while the writer had added the
\* documents of the first chunk before the index was cleared
C11_Witness ==
    /\ osPc = "read"
    /\ chunkNo = 2
    /\ qCount > 0
    /\ \E i \in DOMAIN ixAdded : Holder(ixAdded[i].body) \notin Range(Chunk(strm, chunkNo))

(***************************************************************************)
(* Claims about the XML parser and count_tags_in_file.                     *)
(***************************************************************************)
Front(s) == SubSeq(s, 1, Len(s) - 1)

Last(s) == s[Len(s)]

\* the elements open in the document after a sequence of events
RECURSIVE StackOf(_)
StackOf(events) ==
    IF events = <<>> THEN <<>> ELSE StackAfter(StackOf(Front(events)), Last(events))

\* reader_to_pre_dila takes a turn of its loop on an event of the given kind
ParsesEvent(kind) ==
    /\ xmlMode = "parse"
    /\ xmlPc = "read"
    /\ Len(xmlEvents') = Len(xmlEvents) + 1
    /\ Last(xmlEvents').kind = kind

Recognized(name) == event_to_reading_state(name) # "None"

\* C12: character data read while the innermost open element is one that
\* event_to_reading_state does not recognize is stored in no field of the
\* record, also when that element is nested inside a recognized element.
C12_UnknownDataNotStored ==
    [][(ParsesEvent("Text") /\ xmlStack # <<>> /\ ~Recognized(Head(xmlStack)))
          => pre_dila' = pre_dila]_vars

\* C13: a recognized start tag sets the reading state to the state of its tag;
\* character data read in the state of a scalar field replaces the field and
\* leaves the other fields alone; character data read in the Text state is
\* appended to text; an end tag clears the state when its tag maps to the
\* current state and leaves it unchanged otherwise.
C13_ParserStateMachine ==
    [][LET e == Last(xmlEvents')
           data == Unescape(e.arg)
       IN  /\ (ParsesEvent("Start") /\ Recognized(e.arg)) =>
                 reading_state' = event_to_reading_state(e.arg)
           /\ (ParsesEvent("Text") /\ reading_state \notin {"None", "Text"}) =>
                 /\ pre_dila'[FieldOf(reading_state)] =
                       (IF FieldOf(reading_state) \in StringFields
                        THEN <<data>> ELSE Some(<<data>>))
                 /\ \A f \in DOMAIN pre_dila :
                       f # FieldOf(reading_state) => pre_dila'[f] = pre_dila[f]
           /\ (ParsesEvent("Text") /\ reading_state = "Text") =>
                 /\ pre_dila'.text = pre_dila.text \o <<data>>
                 /\ \A f \in DOMAIN pre_dila : f # "text" => pre_dila'[f] = pre_dila[f]
           /\ (ParsesEvent("End") /\ event_to_reading_state(e.arg) = reading_state) =>
                 reading_state' = "None"
           /\ (ParsesEvent("End") /\ event_to_reading_state(e.arg) # reading_state) =>
                 reading_state' = reading_state
      ]_vars

\* <ID>a<!-- -->&lt;</ID>: the second piece of character data has replaced
\* the first in id, and the end tag of ID has cleared the state
C13_Witness ==
    /\ xmlMode = "parse"
    /\ Len(xmlEvents) = 4
    /\ xmlEvents[1] = Event("Start", "ID")
    /\ xmlEvents[2] = Event("Text", "a")
    /\ xmlEvents[3] = Event("Text", "&lt;")
    /\ xmlEvents[4] = Event("End", "ID")
    /\ pre_dila.id = <<"<">>
    /\ reading_state = "None"

\* the character data read inside CONTENU elements, in document order
RECURSIVE ContenuData(_)
ContenuData(events) ==
    IF events = <<>> THEN <<>>
    ELSE ContenuData(Front(events))
         \o (IF Last(events).kind = "Text" /\ "CONTENU" \in Range(StackOf(Front(events)))
             THEN <<Unescape(Last(events).arg)>> ELSE <<>>)

\* C14: the text field is the concatenation, in document order, of the
\* character data of all CONTENU elements of the events read so far.
C14_TextIsContenuData ==
    xmlMode = "parse" => pre_dila.text = ContenuData(xmlEvents)

\* the <br/> elements read with CONTENU as the innermost open element
RECURSIVE BrInContenu(_)
BrInContenu(events) ==
    IF events = <<>> THEN 0
    ELSE BrInContenu(Front(events))
         + (IF /\ Last(events) = Event("Empty", "br")
               /\ StackOf(Front(events)) # <<>>
               /\ Head(StackOf(Front(events))) = "CONTENU"
            THEN 1 ELSE 0)

\* C15: every <br/> read inside a CONTENU element has its marker in text.
C15_BrMarkersRetained ==
    xmlMode = "parse" =>
        Len(SelectSeq(pre_dila.text, LAMBDA x : x = "<br/>")) = BrInContenu(xmlEvents)

\* C16: a self-closing element changes neither the reading state nor the
\* record, and an optional field is present only if character data was read
\* after a start tag of its element.
C16_EmptyElementLeavesFieldAbsent ==
    /\ [][ParsesEvent("Empty") =>
             reading_state' = reading_state /\ pre_dila' = pre_dila]_vars
    /\ [](xmlMode = "parse" =>
             \A f \in OptionFields :
                pre_dila[f] # None =>
                   \E i, j \in DOMAIN xmlEvents :
                      /\ j < i
                      /\ xmlEvents[j].kind = "Start"
                      /\ Recognized(xmlEvents[j].arg)
                      /\ FieldOf(event_to_reading_state(xmlEvents[j].arg)) = f
                      /\ xmlEvents[i].kind = "Text")

\* <DEMANDEUR/> followed by character data: requester is absent
C16_Witness ==
    /\ xmlMode = "parse"
    /\ Len(xmlEvents) >= 2
    /\ xmlEvents[1] = Event("Empty", "DEMANDEUR")
    /\ xmlEvents[2].kind = "Text"
    /\ pre_dila.requester = None
    /\ reading_state = "None"

\* the elements of a tag in the events: its start tags and its self-closing tags
Elements(events, tag) ==
    Cardinality({i \in DOMAIN events :
                    events[i].kind \in {"Start", "Empty"} /\ events[i].arg = tag})

\* the reader reached the end of a document in which every element is closed
WellFormed(events) ==
    /\ events # <<>>
    /\ Last(events).kind = "Eof"
    /\ StackOf(events) = <<>>

\* C17: after count_tags_in_file has read a well-formed document, the counter
\* of every tag is twice the number of elements of that tag, the self-closing
\* elements included.
C17_CountIsTwiceElements ==
    (xmlMode = "count" /\ xmlPc = "done" /\ WellFormed(xmlEvents)) =>
        \A t \in GenTags : tag_count[t] = 2 * Elements(xmlEvents, t)

(***************************************************************************)
(* Claims about index_files_in_dir and parse_file.                         *)
(***************************************************************************)
\* a document built by parse_file from an .xml file with a parseable year
WellFormedDocument(d) ==
    /\ {"path", "body", "year"} \subseteq DOMAIN d
    /\ d.body \in Files
    /\ IsXml(d.body)
    /\ HasYear(d.body)
    /\ d.path = PathOf(d.body)
    /\ d.year = Year(d.body)

Committed == Range(Flatten(ixSegments))

\* C19: a file without a parseable year is never added to the index; when
\* index_files_in_dir returns, every other .xml file of the directory is in the
\* committed index; every document added or committed has its path, its body
\* and its year.
C19_UnparseableYearSkipped ==
    /\ \A i \in DOMAIN ixAdded : WellFormedDocument(ixAdded[i])
    /\ \A d \in Committed : WellFormedDocument(d)
    /\ wPc = "done" =>
          \A f \in extracted :
             (IsXml(f) /\ HasYear(f)) => \E d \in Committed : d.body = f

\* index_files_in_dir has returned on a directory with a file without a year:
\* the other files are committed, that file is not
C19_Witness ==
    /\ wPc = "done"
    /\ \E f \in extracted : IsXml(f) /\ ~HasYear(f)
    /\ \E f \in extracted : \E d \in Committed : d.body = f
    /\ {d.body : d \in Committed} = {f \in extracted : IsXml(f) /\ HasYear(f)}

(***************************************************************************)
(* Claims about get_year_juri.                                             *)
(***************************************************************************)
\* the year is that of the first match: when the year group of the first match
\* does not parse, later matches are not used and no year is returned
C18_YearFromFirstMatch ==
    (yrPc = "done" /\ yrCaptures # <<>>) =>
        yrResult = (IF ParsesAsU64(yrCaptures[1])
                    THEN Ok(DecimalValue(yrCaptures[1])) ELSE Err)

\* C18: the year is taken from the first match whose year group parses as a
\* u64; matches after it are never used, and the call fails when no match has
\* a year group that parses.
C18_YearFromFirstParseableMatch ==
    yrPc = "done" =>
        \/ /\ \A i \in DOMAIN yrCaptures : ~ParsesAsU64(yrCaptures[i])
           /\ yrResult = Err
        \/ \E i \in DOMAIN yrCaptures :
              /\ ParsesAsU64(yrCaptures[i])
              /\ \A j \in 1..(i - 1) : ~ParsesAsU64(yrCaptures[j])
              /\ yrResult = Ok(DecimalValue(yrCaptures[i]))

\* -01-01</DATE, then two dates with different years: the year of the second
\* match is returned
C18_Witness ==
    /\ yrPc = "done"
    /\ Len(yrCaptures) = 3
    /\ ~ParsesAsU64(yrCaptures[1])
    /\ ParsesAsU64(yrCaptures[2])
    /\ ParsesAsU64(yrCaptures[3])
    /\ yrCaptures[2] # yrCaptures[3]
    /\ yrResult = Ok(DecimalValue(yrCaptures[2]))

(***************************************************************************)
(* Claims about Fond.                                                      *)
(***************************************************************************)
FondNames == {as_str(g) : g \in Range(FONDS)}

\* C20: for each of the seven fonds, try_from of its as_str is Ok of that
\* fond; as_str gives different fonds different strings; try_from of a string
\* that is not the as_str of a fond is an error.
C20_FondRoundTrip ==
    fdPc = "done" =>
        /\ fdBack = [ok |-> TRUE, fond |-> fdFond]
        /\ \A g \in Range(FONDS) : as_str(g) = fdStr => g = fdFond
        /\ fdValue \notin FondNames => ~fdParsed.ok
        /\ fdParsed.ok => fdParsed.fond \in Range(FONDS) /\ as_str(fdParsed.fond) = fdValue

\* INCA has gone through as_str and try_from, and "jorf" was refused
C20_Witness ==
    /\ fdPc = "done"
    /\ fdFond = "Fond::INCA"
    /\ fdStr = "INCA"
    /\ fdBack.ok
    /\ fdValue = "jorf"
    /\ ~fdParsed.ok

(***************************************************************************)
(* Claims about list_tarballs.                                             *)
(***************************************************************************)
\* the part of a name after its last '_' and before the first '-' that follows
DateSegment(name) ==
    LET under == {i \in DOMAIN name : name[i] = "_"}
        u == IF under = {} THEN 0 ELSE CHOOSE i \in under : \A j \in under : j <= i
        dash == {i \in DOMAIN name : i > u /\ name[i] = "-"}
        h == IF dash = {} THEN Len(name) + 1 ELSE CHOOSE i \in dash : \A j \in dash : i <= j
    IN  SubSeq(name, u + 1, h - 1)

\* the date a segment of the form YYYYMMDD names
YearOfSegment(seg) == Number(SubSeq(seg, 1, 4))

MonthOfSegment(seg) == Number(SubSeq(seg, 5, 6))

DayOfSegment(seg) == Number(SubSeq(seg, 7, 8))

IsYYYYMMDD(seg) ==
    /\ Len(seg) = 8
    /\ \A i \in DOMAIN seg : seg[i] \in DigitChars
    /\ MonthOfSegment(seg) \in 1..12
    /\ DayOfSegment(seg) \in 1..DaysIn(YearOfSegment(seg), MonthOfSegment(seg))

ListReturned == lsPc \in {"returned", "again"}

\* C21: a second call on the same body gives the same outcome, and a list that
\* is returned is strictly increasing by name (sorted, no duplicate), holds
\* each matched name once, and each descriptor has the fond of the call and
\* the date parsed from its name.
C21_EnumerationPure ==
    /\ lsPc = "again" => lsAgain = lsResult
    /\ (ListReturned /\ lsResult.kind = "ok") =>
          LET list == lsResult.val IN
             /\ \A i, j \in DOMAIN list :
                   i < j => NameLess(list[i].name, list[j].name)
             /\ {list[i].name : i \in DOMAIN list} = Range(lsContent)
             /\ \A i \in DOMAIN list :
                   /\ list[i].fond = lsFond
                   /\ <<list[i].time>> = parse_from_str(DateSegment(list[i].name))

\* a body naming one tarball twice, after a tarball of a later name: the list
\* has the two names, and the second call gave it again
C21_Witness ==
    /\ lsPc = "again"
    /\ lsResult.kind = "ok"
    /\ Len(lsContent) = 3
    /\ lsContent[1] = lsContent[3]
    /\ NameLess(lsContent[2], lsContent[1])
    /\ Len(lsResult.val) = 2
    /\ lsResult.val[1].name = lsContent[2]

\* C22: a name whose segment between its last '_' and the following '-' is a
\* date YYYYMMDD is given that date: listing a body of such names returns, and
\* every descriptor has the year, month and day of its segment.
C22_DateFromNameSegment ==
    ListReturned =>
       /\ (lsResponse = "body"
             /\ \A i \in DOMAIN lsContent : IsYYYYMMDD(DateSegment(lsContent[i])))
          => lsResult.kind = "ok"
       /\ lsResult.kind = "ok" =>
             \A i \in DOMAIN lsResult.val :
                LET seg == DateSegment(lsResult.val[i].name) IN
                   IsYYYYMMDD(seg) =>
                      lsResult.val[i].time =
                         NaiveDate(YearOfSegment(seg), MonthOfSegment(seg), DayOfSegment(seg))

\* C_20231125-1 and F_j_20231119-1 listed with the dates 2023-11-25 and
\* 2023-11-19
C22_Witness ==
    /\ ListReturned
    /\ lsResult.kind = "ok"
    /\ Len(lsResult.val) = 2
    /\ lsResult.val[1].time = NaiveDate(2023, 11, 25)
    /\ lsResult.val[2].time = NaiveDate(2023, 11, 19)
    /\ Len(Split(lsResult.val[2].name, "_")) = 3

\* C23: when the response is not a success, or a matched name has a date
\* segment that is no date, list_tarballs returns an error value: it returns
\* no list and it does not panic.
C23_ListFailureIsErrorValue ==
    (ListReturned
        /\ \/ lsResponse \in {"send_error", "status_404"}
           \/ lsResponse = "body"
                 /\ \E i \in DOMAIN lsContent :
                       parse_from_str(DateSegment(lsContent[i])) = <<>>)
    => lsResult.kind = "err"

(***************************************************************************)
(* Claims about the concurrent segment collectors.                         *)
(***************************************************************************)
\* the bytes given to the sink so far, in the order they were written
SinkStream == fcFile \o fcBuf

AllHarvested == \A c \in Collectors : fcPc[c] = "harvested"

\* C24: with collectors running concurrently, a collector holds the mutex
\* from before it writes a path until it has written the newline, so in the
\* sink every path is a whole line (start or newline before it, newline after
\* it, unless it was written last), no line is empty, no hit is written twice,
\* and when every collector has harvested the lines are the hits.
C24_SinkLinesWhole ==
    /\ \A c \in Collectors : fcPc[c] \in {"path", "newline", "flush"} => fcHolder = c
    /\ \A i \in DOMAIN SinkStream :
          IF SinkStream[i] = Newline
          THEN i > 1 /\ SinkStream[i - 1] # Newline
          ELSE /\ i > 1 => SinkStream[i - 1] = Newline
               /\ i < Len(SinkStream) => SinkStream[i + 1] = Newline
               /\ \A j \in DOMAIN SinkStream : SinkStream[j] = SinkStream[i] => j = i
    /\ AllHarvested =>
          /\ fcBuf = <<>>
          /\ Len(fcFile) % 2 = 0
          /\ \A i \in DOMAIN fcFile : (i % 2 = 0) <=> (fcFile[i] = Newline)

\* the two collectors have harvested and a line of one lies between two lines
\* of the other
C24_Witness ==
    /\ AllHarvested
    /\ \E i, j, k \in DOMAIN fcFile :
          /\ i < j /\ j < k
          /\ fcFile[i] # Newline /\ fcFile[j] # Newline /\ fcFile[k] # Newline
          /\ CollectorOf(fcFile[i]) = CollectorOf(fcFile[k])
          /\ CollectorOf(fcFile[j]) # CollectorOf(fcFile[i])

(***************************************************************************)
(* Claims about the flush of the save sink.                                *)
(***************************************************************************)
\* the paths of the documents of the searcher's segments the query matches
MatchedPaths == {d.path : d \in {x \in Range(Flatten(qSnapshot)) : Matches(query, x)}}

\* C30: when search_index with a save sink has returned, every segment's
\* collector has harvested: nothing is left in the BufWriter and the sink file
\* holds, after what it held before the call, one line for every hit, the
\* path of every matched document among them, for whoever opens it next.
C30_SinkFlushedOnReturn ==
    (qPc = "done" /\ qSave) =>
        /\ sinkBuf = <<>>
        /\ saveFile.exists
        /\ MatchedPaths \subseteq Range(saveFile.data)
        /\ Len(saveFile.data) = Len(saveBefore.data) + qCount

\* a search with a save sink has returned after hits in two segments
C30_Witness ==
    /\ qPc = "done"
    /\ qSave
    /\ Len(qSnapshot) >= 2
    /\ \A k \in 1..2 : \E i \in DOMAIN qSnapshot[k] : Matches(query, qSnapshot[k][i])
    /\ MatchedPaths \subseteq Range(saveFile.data)

(***************************************************************************)
(* Claims about the --update command.                                      *)
(***************************************************************************)
\* the archives of tb that extract_tarball can read to their end
WholeListed == {t \in Range(upTb) : upTdir[t] = "whole"}

\* C25: an update downloads only the tarballs that are missing and extracts
\* and indexes only those: a tarball the tarballs directory already held when
\* the run started is not extracted again, no file gets a second document in
\* the index, and the tmp tree does not exist once the update is over
C25_UpdateHandlesOnlyNewTarballs ==
    /\ upCalled \cap upHad = {}
    /\ \A f \in Archives : upIndex[f] <= 1
    /\ upPc = "done" => ~upTmpExists

C27_ListingFailureSkipsFond ==
    \/ NotListed
    \/ \A f \in Fonds :
          /\ osListing[f] \in {"returned", "failed"}
          /\ osListing[f] = "returned" => Range(Listing(f)) \subseteq Range(strm)

(***************************************************************************)
(* Claims about the --csv command.                                         *)
(***************************************************************************)
\* the command is over, by a return or by a panic
RcOver == rcPc \in {"done", "panicked"}

\* the rows of the output after the header row
DataRows == SelectSeq(rcRows, LAMBDA r : r # Header)

\* the complete record of the file a line names
WholeRow(line) == [path |-> line, whole |-> TRUE]

\* the lines that name a good document of the corpus, from the current
\* directory
GoodLines ==
    SelectSeq(rcLines, LAMBDA l : \E f \in Files : CwdLine(f) = l /\ KindOf(f) = "good")

\* C26: a file of the list that cannot be parsed (missing, not .xml,
\* malformed, bad escape) is skipped: the run completes, the output has no
\* row for that file, and it has the complete row of every other file of the
\* list, in the order of the list
C26_BadFileSkipped ==
    (RcOver /\ \A i \in DOMAIN rcLines : \E f \in Files : rcLines[i] = CwdLine(f)) =>
        /\ rcPc = "done"
        /\ DataRows = [i \in DOMAIN GoodLines |-> WholeRow(GoodLines[i])]

\* C29: on a match list that query --save wrote, whose paths are relative to
\* extracted/ and name good documents, the command writes the header row followed by exactly one
\* row per line of the list, in the order of the list
C29_CsvOfSavedMatches ==
    (/\ RcOver
     /\ rcBad = 0
     /\ rcLines # <<>>
     /\ \A i \in DOMAIN rcLines : \E f \in Files : rcLines[i] = SavedLine(f)) =>
        /\ rcPc = "done"
        /\ rcRows = <<Header>> \o [i \in DOMAIN rcLines |-> WholeRow(rcLines[i])]

(***************************************************************************)
(* Claims about the chunk loop of the one-shot command.                    *)
(***************************************************************************)
\* the positions of main inside one turn of the chunk loop, in program order:
\* download, extract, index_files_in_dir called and returned, commit, query
\* called and returned, copy into results.txt, moves, removal and creation of
\* the two directories, delete_all_documents and commit, removal of
\* results_tmp.txt
ChunkOrder ==
    <<"download", "extract", "index", "indexing", "search", "searching", "read",
      "move", "create", "clear", "rmtmp", "chunk">>

PlaceOf(pc) == CHOOSE i \in DOMAIN ChunkOrder : ChunkOrder[i] = pc

\* C31: each chunk of the one-shot loop runs its steps in the fixed order
\* download, extract, index, commit, query, append, move, empty the two
\* directories, deleteAll plus commit, remove results_tmp.txt; the query runs
\* only once every document added for the chunk is committed, and a chunk
\* starts only while results_tmp.txt does not exist
C31_ChunkStepsInOrder ==
    [][/\ (osPc' # osPc /\ osPc \in Range(ChunkOrder) \ {"chunk"}) =>
             osPc' \in {ChunkOrder[PlaceOf(osPc) + 1], "panicked"}
       /\ (osPc' # osPc /\ osPc = "chunk") => osPc' \in {"download", "csv_open"}
       /\ osPc' = "searching" =>
             /\ wPc' = "done"
             /\ ixPending' = <<>>
             /\ ixCommitted' = Len(ixAdded')
       /\ osPc' = "download" => ~saveFile'.exists]_vars

\* the query of the second chunk runs on committed documents of that chunk
C31_Witness ==
    /\ osPc = "searching"
    /\ chunkNo = 2
    /\ qPc = "collect"
    /\ Flatten(ixSegments) # <<>>

(***************************************************************************)
(* Claims about the finalization of the one-shot command.                  *)
(***************************************************************************)
\* the paths sent to the parsers 1..k and not yet received
RECURSIVE QueuedUpTo(_)
QueuedUpTo(k) == IF k = 0 THEN 0 ELSE Len(parserQueue[k]) + QueuedUpTo(k - 1)

\* the parser that line i of results.txt is sent to
ParserOfLine(i) == ((i - 1) % NumParsers) + 1

\* C32: the finalization is exactly-once: once the dispatcher has read
\* results.txt to its end, every line the chunk loop put there is, as the
\* path under results/, in the channel of parser i mod 5, in the channel of
\* the writer or in a row of the CSV, no parser has panicked, and there are
\* as many queued paths, queued records and rows as there are lines
C32_FinalizationExactlyOnce ==
    osPc \in {"csv_join", "done"} =>
        /\ \A i \in DOMAIN appended :
              WithNewline(appended[i]) \in
                 Range(parserQueue[ParserOfLine(i)]) \cup Range(writerQueue)
                    \cup Range(csvRows)
        /\ \A k \in Parsers : parserPc[k] # "panicked"
        /\ QueuedUpTo(NumParsers) + Len(writerQueue) + Len(csvRows) = Len(appended)

\* the listings of the fonds that gave one, in the order of the fonds
Enumerated == ListedOf(osListing, 1) \o ListedOf(osListing, 2)

\* every fond has been listed, with a list or an error value
ListingOver == \A f \in Fonds : osListing[f] \in {"returned", "failed"}

\* main is inside a turn of the chunk loop, after its download
InChunk ==
    osPc \in {"extract", "index", "indexing", "search", "searching", "read", "move",
              "create", "clear", "rmtmp"}

\* C33: the tarballs are processed in the reverse of the concatenation of the
\* listings of the fonds, in consecutive chunks of at most 10: the chunk in
\* process is the next 10 descriptors of that order, or the remaining ones if
\* fewer, only the last chunk holds fewer than 10, and the loop ends when
\* every descriptor has been in a chunk
C33_ReversedChunksOfTen ==
    ListingOver =>
        /\ Len(strm) = Len(Enumerated)
        /\ \A i \in DOMAIN strm : strm[i] = Enumerated[Len(strm) + 1 - i]
        /\ InChunk =>
              /\ dlList # <<>>
              /\ Len(dlList) <= ChunkSize
              /\ \A j \in DOMAIN dlList : dlList[j] = strm[(chunkNo - 1) * ChunkSize + j]
              /\ Len(dlList) < ChunkSize =>
                    (chunkNo - 1) * ChunkSize + Len(dlList) = Len(strm)
        /\ osPc = "csv_open" => (chunkNo - 1) * ChunkSize >= Len(strm)

\* the second chunk of a run over both fonds, shorter than the first
C33_Witness ==
    /\ ListingOver
    /\ InChunk
    /\ chunkNo = 2
    /\ Len(strm) > ChunkSize
    /\ Len(dlList) < ChunkSize
    /\ strm[1] = Enumerated[Len(Enumerated)]

(***************************************************************************)
(* Claims about main of the persistent binary.                             *)
(***************************************************************************)
\* the fixed order of the phases
PhaseOrder == <<"download", "extract", "index", "update", "query", "csv">>

PhaseRank(ph) == CHOOSE i \in DOMAIN PhaseOrder : PhaseOrder[i] = ph

\* the phases a set of flags asks for: update replaces the three standalone
\* phases
Requested ==
    {ph \in Range(PhaseOrder) :
        \/ ph = "download" /\ "tarballs" \in Range(mnArgv) /\ "update" \notin Range(mnArgv)
        \/ ph \in {"extract", "index"} /\ ph \in Range(mnArgv) /\ "update" \notin Range(mnArgv)
        \/ ph \in {"update", "query", "csv"} /\ ph \in Range(mnArgv)}

\* C34: whatever the order of the flags, the phases run in the fixed order
\* download, extract, index, update, query, csv; with --update the standalone
\* download, extract and index phases do not run; at most one index writer
\* exists at any time; a run that ends without a panic has run the phases its
\* set of flags asks for
C34_PhasesInFixedOrder ==
    /\ \A i, j \in DOMAIN mnRan : i < j => PhaseRank(mnRan[i]) < PhaseRank(mnRan[j])
    /\ "update" \in Range(mnArgv) =>
          Range(mnRan) \cap {"download", "extract", "index"} = {}
    /\ mnWriters <= 1
    /\ Range(mnRan) \subseteq Requested
    /\ mnPc = "done" => Range(mnRan) = Requested

\* a run with the flags given in the reverse of the phase order, --update and
\* --index both set, has ended
C34_Witness ==
    /\ mnPc = "done"
    /\ mnArgv = <<"csv", "query", "update", "index">>
    /\ mnRan = <<"update", "query", "csv">>

(***************************************************************************)
(* Claims about the reading state of the XML parser.                       *)
(***************************************************************************)
\* C35: the parser holds one reading state at a time: a recognized start tag
\* met while a recognized element is being read replaces the state; the end
\* tag of that inner element leaves the state idle although the outer
\* recognized element is still open; character data read in the idle state,
\* the later data of the outer element included, changes no field
C35_SingleReadingState ==
    [][LET e == Last(xmlEvents') IN
          /\ (ParsesEvent("Start") /\ Recognized(e.arg) /\ reading_state # "None") =>
                reading_state' = event_to_reading_state(e.arg)
          /\ (/\ ParsesEvent("End")
              /\ Len(xmlStack) >= 2
              /\ Recognized(xmlStack[1])
              /\ Recognized(xmlStack[2])
              /\ reading_state = event_to_reading_state(xmlStack[1])) =>
                reading_state' = "None"
          /\ (ParsesEvent("Text") /\ reading_state = "None") => pre_dila' = pre_dila
      ]_vars

\* <CONTENU><ID></ID>a: the data after the inner element was read in the idle
\* state and is in no field
C35_Witness ==
    /\ xmlMode = "parse"
    /\ Len(xmlEvents) = 4
    /\ xmlEvents[1] = Event("Start", "CONTENU")
    /\ xmlEvents[2] = Event("Start", "ID")
    /\ xmlEvents[3] = Event("End", "ID")
    /\ xmlEvents[4] = Event("Text", "a")
    /\ reading_state = "None"
    /\ pre_dila = DefaultPreDila

(***************************************************************************)
(* Claims about the files of the descriptors download reports.             *)
(***************************************************************************)
\* C36: every descriptor that download_tarball_list returns as newly
\* downloaded has a file at its path in the download directory, and the file
\* holds the complete body of the response
C36_ReportedFileComplete ==
    dlPc = "returned" =>
        \A t \in Range(dlResults) : dlDir[t].exists /\ dlDir[t].data = Body(t)

(***************************************************************************)
(* Claims about a failed query in the chunk loop.                          *)
(***************************************************************************)
\* C37: when search_index returns an Err in a chunk of the one-shot loop (the
\* query text does not parse), the failure is logged and the chunk still
\* completes: main does not panic after the failed query, and it reaches the
\* next turn of the loop with tarballs/ and extracted/ empty and the index
\* cleared
C37_QueryFailureChunkCompletes ==
    qPc = "error" =>
        /\ osPc # "panicked"
        /\ (osPc = "chunk" /\ chunkNo > 1) =>
              /\ extracted = {}
              /\ \A t \in Tarballs : ~dlDir[t].exists
              /\ Flatten(ixSegments) = <<>>

(***************************************************************************)
(* Claims about the index and the matches of one chunk.                    *)
(***************************************************************************)
\* the files of the archives of the chunk in process
FilesOfChunk == {f \in Files : Holder(f) \in Range(Chunk(strm, chunkNo))}

\* C38: the index holds no document when a chunk starts indexing; the paths
\* the query of a chunk writes to results_tmp.txt are paths of files of the
\* archives of that chunk; and each path names a file that is under
\* extracted/ when its turn to be moved comes
C38_ChunkQuerySeesOwnFiles ==
    /\ osPc = "index" => (Flatten(ixSegments) = <<>> /\ ixPending = <<>>)
    /\ (osPc \in {"read", "move"} /\ saveFile.exists) =>
          \A i \in DOMAIN saveFile.data :
             \E f \in FilesOfChunk : PathOf(f) = saveFile.data[i]
    /\ (osPc = "move" /\ mvTodo # <<>>) =>
          \E f \in extracted : PathOf(f) = Head(mvTodo)

\* the second chunk is about to move a match, after the first chunk had one
C38_Witness ==
    /\ osPc = "move"
    /\ chunkNo = 2
    /\ mvTodo # <<>>
    /\ resultsDir # {}
    /\ \E f \in FilesOfChunk : PathOf(f) = Head(mvTodo) /\ f \in extracted

(***************************************************************************)
(* Claims about the save sink of search_index.                             *)
(***************************************************************************)
\* the paths of the matching documents of the searcher, in collection order
MatchedLines ==
    [i \in 1..Len(SelectMatching(Flatten(qSnapshot), query)) |->
        SelectMatching(Flatten(qSnapshot), query)[i].path]

\* C39: search_index with a save sink only appends to the sink file: at every
\* point of the call the lines the file held when the call was entered are
\* its first lines, unchanged and in the same order; a call that fails on its
\* query leaves the file as it was; and when the call returns the lines after
\* them are the paths of the matches
C39_SaveSinkOnlyAppends ==
    (qSave /\ qPc \in {"start", "collect", "done", "error"}) =>
        /\ Len(saveBefore.data) <= Len(saveFile.data)
        /\ \A i \in DOMAIN saveBefore.data : saveFile.data[i] = saveBefore.data[i]
        /\ qPc \in {"start", "error"} => saveFile = saveBefore
        /\ qPc = "done" => Appended = MatchedLines

\* a save query with matches has returned on a sink file that held lines
\* before the call
C39_Witness ==
    /\ qSave
    /\ qPc = "done"
    /\ saveBefore.exists
    /\ saveBefore.data # <<>>
    /\ MatchedLines # <<>>
    /\ Len(saveFile.data) > Len(saveBefore.data)

(***************************************************************************)
(* Claims about an update that downloads nothing.                          *)
(***************************************************************************)
\* get_tarballs has gone through every fond and tarballs/ holds no file it
\* did not hold when the run started
NothingNewlyDownloaded ==
    /\ upPc \in {"list", "extract", "index", "move", "cleanup"}
    /\ upFond \notin Fonds
    /\ \A t \in Archives : upTdir[t] # "absent" => t \in upHad

\* C40: an update that has downloaded no new tarball returns without going
\* through extraction or opening an index writer: from the end of get_tarballs
\* on, every step of the run leads to its return and leaves the index, the
\* extracted/ tree and the tarballs/ directory as they were
C40_NoNewTarballNoChange ==
    [][NothingNewlyDownloaded =>
          /\ upPc' \in {"cleanup", "done"}
          /\ UNCHANGED <<upIndex, upEdir, upTdir>>]_vars

(***************************************************************************)
(* Initial states and specifications.                                      *)
(***************************************************************************)
\* no download_tarball_list call
DlIdle ==
    /\ dlPc = "idle"
    /\ dlRun = 0
    /\ dlList = <<>>
    /\ dlDirState = "present"
    /\ dlDir = <<>>
    /\ dlBefore = <<>>
    /\ dlNext = 1
    /\ dlTask = <<>>
    /\ dlResults = <<>>
    /\ dlRequests = {}

\* the one-shot program is not running
OsIdle ==
    /\ osPc = "idle"
    /\ strm = <<>>
    /\ chunkNo = 1
    /\ extractedDir = "present"
    /\ resultsDir = {}
    /\ resultsTxt = NoFile
    /\ resultsBuf = <<>>
    /\ appended = <<>>
    /\ mvTodo = <<>>

\* no thread of result_file_to_csv exists
CsvIdle ==
    /\ csNext = 0
    /\ csJoin = 1
    /\ parserPc = [k \in Parsers |-> "none"]
    /\ parserQueue = [k \in Parsers |-> <<>>]
    /\ txAlive = [k \in Parsers |-> FALSE]
    /\ writerPc = "none"
    /\ writerQueue = <<>>
    /\ writerSenders = 0
    /\ csvRows = <<>>

\* no document is being read
XmlIdle ==
    /\ xmlMode = "idle"
    /\ xmlPc = "idle"
    /\ xmlEvents = <<>>
    /\ xmlStack = <<>>
    /\ reading_state = "None"
    /\ pre_dila = DefaultPreDila
    /\ tag_count = [t \in GenTags |-> 0]

YearIdle ==
    /\ yrPc = "idle"
    /\ yrCaptures = <<>>
    /\ yrResult = Err

FondIdle ==
    /\ fdPc = "idle"
    /\ fdFond = FONDS[1]
    /\ fdValue = ""
    /\ fdStr = ""
    /\ fdBack = try_from("")
    /\ fdParsed = try_from("")

ListIdle ==
    /\ lsPc = "idle"
    /\ lsFond = FONDS[1]
    /\ lsResponse = "body"
    /\ lsContent = <<>>
    /\ lsResult = Failed
    /\ lsAgain = Failed

FcIdle ==
    /\ fcPc = [c \in Collectors |-> "idle"]
    /\ fcTodo = [c \in Collectors |-> <<>>]
    /\ fcHolder = 0
    /\ fcBuf = <<>>
    /\ fcFile = <<>>

UpIdle ==
    /\ upPc = "idle"
    /\ upRun = 0
    /\ upFond = 1
    /\ upTdir = [t \in Archives |-> "absent"]
    /\ upHad = {}
    /\ upListing = [f \in Fonds |-> "none"]
    /\ upTb = <<>>
    /\ upTodo = <<>>
    /\ upCalled = {}
    /\ upFailed = {}
    /\ upTmpExists = FALSE
    /\ upTmp = {}
    /\ upEdir = {}
    /\ upIndex = [f \in Archives |-> 0]

RcIdle ==
    /\ rcPc = "idle"
    /\ rcLines = <<>>
    /\ rcNext = 1
    /\ rcBad = 0
    /\ rcKind = "missing"
    /\ rcRows = <<>>

MnIdle ==
    /\ mnPc = "idle"
    /\ mnArgv = <<>>
    /\ mnTdir = FALSE
    /\ mnRan = <<>>
    /\ mnWriters = 0

CmdIdle == UpIdle /\ RcIdle /\ NotListed /\ MnIdle

MoreIdle == ListIdle /\ FcIdle /\ CmdIdle

PureIdle == XmlIdle /\ YearIdle /\ FondIdle /\ MoreIdle

\* a new index (Index::create_in_dir, Index::create_in_ram) and no writer run
IxInit(files) ==
    /\ extracted = files
    /\ ixSegments = <<>>
    /\ ixPending = <<>>
    /\ ixClear = FALSE
    /\ ixAdded = <<>>
    /\ ixCommitted = 0
    /\ wPc = "idle"
    /\ wTodo = {}
    /\ wRuns = 0

\* no search_index call yet and no file at the save path
QInit(queries) ==
    /\ query \in queries
    /\ qPc = "idle"
    /\ qSave = FALSE
    /\ qSnapshot = <<>>
    /\ qSeg = 1
    /\ qDoc = 0
    /\ qCount = 0
    /\ qTop = {}
    /\ qOpenStamp = 0
    /\ qOpenCommit = 0
    /\ qRuns = 0
    /\ saveFile = NoFile
    /\ saveBefore = NoFile
    /\ sinkBuf = <<>>

IdleQuery == {[ok |-> TRUE, hits |-> {}]}

\* the directory before the first call: missing, or holding complete files of
\* an earlier run for any subset of the listing
DownloadInit(n, dirStates, locals) ==
    /\ dlPc = "enter"
    /\ dlRun = 1
    /\ dlList = [i \in 1..n |-> i]
    /\ dlDirState \in dirStates
    /\ \E have \in locals :
          dlDir = [t \in 1..n |-> IF dlDirState = "present" /\ t \in have
                                  THEN FileOf(Body(t)) ELSE NoFile]
    /\ dlBefore = dlDir
    /\ dlNext = 1
    /\ dlTask = [t \in 1..n |-> PendingTask]
    /\ dlResults = <<>>
    /\ dlRequests = {}
    /\ IxInit({})
    /\ QInit(IdleQuery)
    /\ OsIdle
    /\ CsvIdle
    /\ XmlIdle
    /\ YearIdle
    /\ FondIdle
    /\ MoreIdle

InitDownload ==
    DownloadInit(NumListed, {"present", "absent", "uncreatable"},
                 SUBSET (1..NumListed))

NextDownload == DownloadStep \/ Kill \/ Rerun

SpecDownload == InitDownload /\ [][NextDownload]_vars

\* a long listing of which only the first descriptor is missing locally
InitDownloadMany == DownloadInit(NumMany, {"present"}, {2..NumMany})

SpecDownloadMany ==
    InitDownloadMany /\ [][DownloadStep]_vars /\ WF_vars(DownloadStep)

\* persistent mode: an index over the files of extracted/, a writer process
\* (dilarxiv --index) and a query process (dilarxiv --query) on the same index
InitIndex ==
    DlIdle /\ IxInit(Files) /\ QInit(Queries) /\ OsIdle /\ CsvIdle /\ PureIdle

NextIndex == IndexStart \/ IndexStep \/ QueryStart \/ SearchStep

SpecIndex == InitIndex /\ [][NextIndex]_vars

\* dilarxiv-oneshot --query text --to-csv file: the temporary directory with
\* tarballs/, extracted/ and results/ created, results.txt opened, a RAM index
InitOneShot ==
    /\ dlPc = "idle"
    /\ dlRun = 0
    /\ dlList = <<>>
    /\ dlDirState = "present"
    /\ dlDir = [t \in Tarballs |-> NoFile]
    /\ dlBefore = dlDir
    /\ dlNext = 1
    /\ dlTask = [t \in Tarballs |-> PendingTask]
    /\ dlResults = <<>>
    /\ dlRequests = {}
    /\ IxInit({})
    /\ QInit(Queries)
    /\ osPc = "list"
    /\ strm = <<>>
    /\ chunkNo = 1
    /\ extractedDir = "present"
    /\ resultsDir = {}
    /\ resultsTxt = FileOf(<<>>)
    /\ resultsBuf = <<>>
    /\ appended = <<>>
    /\ mvTodo = <<>>
    /\ CsvIdle
    /\ PureIdle

NextOneShot == MainStep \/ IndexStep \/ SearchStep \/ CsvStep

\* main and the threads it spawned keep running while one of them can step
SpecOneShot == InitOneShot /\ [][NextOneShot]_vars /\ WF_vars(NextOneShot)

\* no command is running
SysIdle == DlIdle /\ IxInit({}) /\ QInit(IdleQuery) /\ OsIdle /\ CsvIdle

\* a document is handed to reader_to_pre_dila or to count_tags_in_file
InitXml ==
    /\ SysIdle
    /\ YearIdle
    /\ FondIdle
    /\ MoreIdle
    /\ xmlMode \in {"parse", "count"}
    /\ xmlPc = "read"
    /\ xmlEvents = <<>>
    /\ xmlStack = <<>>
    /\ reading_state = "None"
    /\ pre_dila = DefaultPreDila
    /\ tag_count = [t \in GenTags |-> 0]

NextXml == reader_to_pre_dila_event \/ count_tags_in_file_event

SpecXml == InitXml /\ [][NextXml]_vars

\* get_year_juri is called on a raw document with up to MaxMatches matches
InitYear ==
    /\ SysIdle
    /\ XmlIdle
    /\ FondIdle
    /\ MoreIdle
    /\ yrPc = "call"
    /\ yrCaptures \in SeqsUpTo(YearGroups, MaxMatches)
    /\ yrResult = Err

SpecYear == InitYear /\ [][get_year_juri_call]_vars

\* a Fond and a String
InitFond ==
    /\ SysIdle
    /\ XmlIdle
    /\ YearIdle
    /\ MoreIdle
    /\ fdPc = "call"
    /\ fdFond \in Range(FONDS)
    /\ fdValue \in FondStrings
    /\ fdStr = ""
    /\ fdBack = try_from("")
    /\ fdParsed = try_from("")

SpecFond == InitFond /\ [][fond_call]_vars

\* list_tarballs is called for a fond, the server answers, the body holds up to
\* MaxNames matches of the pattern
InitList ==
    /\ SysIdle
    /\ XmlIdle
    /\ YearIdle
    /\ FondIdle
    /\ FcIdle
    /\ CmdIdle
    /\ lsPc = "call"
    /\ lsFond \in {FONDS[1], FONDS[6]}
    /\ lsResponse \in Responses
    /\ lsContent \in SeqsUpTo(GenNames, MaxNames)
    /\ lsResult = Failed
    /\ lsAgain = Failed

NextList == list_tarballs_call \/ list_tarballs_again

SpecList == InitList /\ [][NextList]_vars

\* searcher.search has made one FileListSegmentCollector per segment with
\* for_segment; each has the hits of its segment to collect, then harvests
InitCollect ==
    /\ SysIdle
    /\ XmlIdle
    /\ YearIdle
    /\ FondIdle
    /\ ListIdle
    /\ CmdIdle
    /\ fcPc = [c \in Collectors |-> "run"]
    /\ \E n \in [Collectors -> 0..2] :
          fcTodo = [c \in Collectors |->
                       [k \in 1..Min(n[c], HitsOf(c)) |-> HitPath(c, k)]]
    /\ fcHolder = 0
    /\ fcBuf = <<>>
    /\ fcFile = <<>>

SpecCollect == InitCollect /\ [][CollectStep]_vars


\* the --update command, run up to MaxRuns times on the same directories
InitUpdate ==
    /\ SysIdle
    /\ XmlIdle /\ YearIdle /\ FondIdle /\ ListIdle /\ FcIdle
    /\ UpIdle /\ RcIdle /\ NotListed /\ MnIdle

SpecUpdate == InitUpdate /\ [][UpdateStep]_vars

\* the --csv command on a result file: the list query --save wrote, or a
\* list of paths from the current directory; at most one file of the corpus
\* is not a good document
InitResultCsv ==
    /\ SysIdle
    /\ XmlIdle /\ YearIdle /\ FondIdle /\ ListIdle /\ FcIdle
    /\ UpIdle /\ NotListed /\ MnIdle
    /\ rcPc = "loop"
    /\ rcNext = 1
    /\ rcRows = <<>>
    /\ \E files \in SeqsUpTo(Files, MaxLines), saved \in BOOLEAN :
          rcLines = [i \in 1..Len(files) |->
                       IF saved THEN SavedLine(files[i]) ELSE CwdLine(files[i])]
    /\ rcBad \in Files \cup {0}
    /\ rcKind \in BadKinds
    /\ rcBad = 0 => rcKind = "missing"

NextResultCsv == result_file_to_csv_line \/ result_file_to_csv_return

SpecResultCsv == InitResultCsv /\ [][NextResultCsv]_vars

\* a run of dilarxiv with any set of the flags in any order, the directory
\* tarballs there already or not
InitDilarxiv ==
    /\ SysIdle
    /\ XmlIdle /\ YearIdle /\ FondIdle /\ ListIdle /\ FcIdle
    /\ UpIdle /\ RcIdle /\ NotListed
    /\ mnPc = "tarballs"
    /\ mnArgv \in {a \in SeqsUpTo(Flags, Cardinality(Flags)) :
                      \A i, j \in DOMAIN a : i # j => a[i] # a[j]}
    /\ mnTdir \in BOOLEAN
    /\ mnRan = <<>>
    /\ mnWriters = 0

SpecDilarxiv == InitDilarxiv /\ [][DilarxivStep]_vars


=========================================================================
